---- MODULE Spec2Model ----
(***************************************************************************)
(* A model of the voxel-world storage core: the chunk formats and their    *)
(* promotion (crates/world_core/src/chunk), the dense identifier-indexed   *)
(* store (crates/utils/src/spare_set.rs) and the chunk manager             *)
(* (crates/world_core/src/chunk_manager).                                  *)
(*                                                                         *)
(* Rust arrays are modelled as functions over 0..len-1 so that every index *)
(* of the model is the index of the source.                                *)
(***************************************************************************)
EXTENDS Integers, Sequences, FiniteSets, TLC

VARIABLES
    chunk,      \* the Chunk under test: [position, handle]
    shadow,     \* ghost: linear coordinate -> state of the most recent set_block there
    nfresh,     \* ghost: number of distinct states the filling caller has written
    written,    \* ghost: the non-air states given to the set_block calls so far
    extra,      \* ghost: number of calls made by the other callers
    last,       \* ghost: the last call made on the chunk: its name, the format it found,
                \* the promote() calls it made, and whether get_block(pos) returned
                \* the written state right after a set_block(pos, state)
    sparse_set, \* the SparseSet under test: [dense, sparse]
    ss_ref,     \* ghost: the reference map, Id -> value or None
    ss_last,    \* ghost: the last call on the SparseSet, what it returned, what the
                \* reference map returns for the same call, and whether the call
                \* changed the SparseSet
    manager,    \* the ChunkManager: [section_map, chunk_id_tracker, chunk_modified]
    mgr_marked, \* ghost: the Ids marked since the previous drain
    mgr_count,  \* ghost: the insert_chunk, make_dirty and query calls made so far
    mgr_last,   \* ghost: the last call on the ChunkManager and what it produced
    mgr_hist,   \* ghost: the positions given to insert_chunk so far, and the Ids
                \* insert_chunk stored since the previous drain
    tracker,    \* the IdTracker under test: [free, next]
    tr_last     \* ghost: the last call on the IdTracker, the Id it returned or took,
                \* the call before it, and the tracker that call found

chunkVars == <<chunk, shadow, nfresh, written, extra, last>>
sparseSetVars == <<sparse_set, ss_ref, ss_last>>
managerVars == <<manager, mgr_marked, mgr_count, mgr_last, mgr_hist>>
trackerVars == <<tracker, tr_last>>
vars == <<chunk, shadow, nfresh, written, extra, last, sparse_set, ss_ref, ss_last,
          manager, mgr_marked, mgr_count, mgr_last, mgr_hist, tracker, tr_last>>

(***************************************************************************)
(* Constants of the program                                                *)
(***************************************************************************)
CHUNK_SIZE == 16
AIR == 0
AVAILABLE_PALETTE_ENTRY == AIR
Chunk4BitsPaletteLen == 15
Chunk8BitsPaletteLen == 255
U8Modulus == 256

ChunkVolume == CHUNK_SIZE * CHUNK_SIZE * CHUNK_SIZE

\* Option<u8>::None of the palette lookups (any value that is no u8)
None == 0 - 1

\* a value computed once and handed to the expression that uses it
Bind(value, Body(_)) == Body(value)

\* the concatenation of a sequence of sequences
RECURSIVE Flatten(_)
Flatten(seqs) == IF seqs = <<>> THEN <<>> ELSE Head(seqs) \o Flatten(Tail(seqs))

(***************************************************************************)
(* Bounds of the model                                                     *)
(***************************************************************************)
\* the filling caller writes the states 1..MaxFresh, one new state per call
MaxFresh == 257
\* the other callers (overwrites of the test positions, explicit promote()) make
\* at most MaxExtra calls, anywhere between the calls of the filling caller
MaxExtra == 1

Min(S) == CHOOSE m \in S : \A n \in S : m <= n

\* u8 bit operations, bit by bit
RECURSIVE BitOr(_, _)
BitOr(a, b) ==
    IF a = 0 THEN b
    ELSE IF b = 0 THEN a
    ELSE (IF (a % 2) + (b % 2) > 0 THEN 1 ELSE 0) + 2 * BitOr(a \div 2, b \div 2)

RECURSIVE BitAnd(_, _)
BitAnd(a, b) ==
    IF a = 0 \/ b = 0 THEN 0
    ELSE (IF (a % 2) + (b % 2) = 2 THEN 1 ELSE 0) + 2 * BitAnd(a \div 2, b \div 2)

Shl4(b) == (b * 16) % U8Modulus
Shr4(b) == b \div 16

(***************************************************************************)
(* Block positions                                                         *)
(***************************************************************************)
BlockPos(x, y, z) == [x |-> x, y |-> y, z |-> z]

\* pos.x + pos.y * CHUNK_SIZE + pos.z * CHUNK_SIZE * CHUNK_SIZE
linear_coord(pos) == pos.x + pos.y * CHUNK_SIZE + pos.z * CHUNK_SIZE * CHUNK_SIZE

\* assert!(pos.x < CHUNK_SIZE && pos.y < CHUNK_SIZE && pos.z < CHUNK_SIZE)
assert_pos(pos) == pos.x < CHUNK_SIZE /\ pos.y < CHUNK_SIZE /\ pos.z < CHUNK_SIZE

(***************************************************************************)
(* ChunkNative                                                             *)
(***************************************************************************)
ChunkNative_new ==
    [tag |-> "ChunkNative",
     blocks |-> [i \in 0..(ChunkVolume - 1) |-> AVAILABLE_PALETTE_ENTRY]]

ChunkNative_get_block(self, pos) == self.blocks[linear_coord(pos)]

ChunkNative_try_set_block(self, pos, state) ==
    [ok |-> TRUE, self |-> [self EXCEPT !.blocks[linear_coord(pos)] = state]]

(***************************************************************************)
(* PaletteChunk: the palette of Chunk8Bits and of Chunk4Bits               *)
(***************************************************************************)
Chunk8Bits_corresponding_palette_index(self, state) ==
    IF state = AIR THEN 0
    ELSE LET found == {i \in DOMAIN self.palette : self.palette[i] = state}
         IN  IF found = {} THEN None ELSE (Min(found) % U8Modulus) + 1

Chunk8Bits_get_or_create_palette_index(self, state) ==
    LET known == Chunk8Bits_corresponding_palette_index(self, state)
        free == {i \in DOMAIN self.palette : self.palette[i] = 0}
    IN  IF known # None THEN [index |-> known, self |-> self]
        ELSE IF free # {}
             THEN [index |-> (Min(free) % U8Modulus) + 1,
                   self |-> [self EXCEPT !.palette[Min(free)] = state]]
             ELSE [index |-> None, self |-> self]

Chunk8Bits_get_block_state_from_index(self, palette_index) ==
    IF palette_index = 0 THEN AIR ELSE self.palette[palette_index - 1]

Chunk4Bits_corresponding_palette_index(self, state) ==
    IF state = AIR THEN 0
    ELSE LET found == {i \in DOMAIN self.palette : self.palette[i] = state}
         IN  IF found = {} THEN None ELSE (Min(found) % U8Modulus) + 1

\* mutant: a full palette hands out its first slot again instead of refusing
Chunk4Bits_get_or_create_palette_index_reuse(self, state) ==
    LET known == Chunk4Bits_corresponding_palette_index(self, state)
        free == {i \in DOMAIN self.palette : self.palette[i] = 0}
    IN  IF known # None THEN [index |-> known, self |-> self]
        ELSE IF free # {}
             THEN [index |-> (Min(free) % U8Modulus) + 1,
                   self |-> [self EXCEPT !.palette[Min(free)] = state]]
             ELSE [index |-> 1, self |-> [self EXCEPT !.palette[0] = state]]

\* mutant: a full palette releases a slot that no voxel refers to
Chunk4Bits_get_or_create_palette_index_release(self, state) ==
    LET known == Chunk4Bits_corresponding_palette_index(self, state)
        free == {i \in DOMAIN self.palette : self.palette[i] = 0}
        unheld == {i \in DOMAIN self.palette :
                      \A j \in DOMAIN self.blocks :
                          self.blocks[j] % 16 # i + 1 /\ self.blocks[j] \div 16 # i + 1}
    IN  IF known # None THEN [index |-> known, self |-> self]
        ELSE IF free # {}
             THEN [index |-> (Min(free) % U8Modulus) + 1,
                   self |-> [self EXCEPT !.palette[Min(free)] = state]]
             ELSE IF unheld # {}
             THEN [index |-> (Min(unheld) % U8Modulus) + 1,
                   self |-> [self EXCEPT !.palette[Min(unheld)] = state]]
             ELSE [index |-> None, self |-> self]

Chunk4Bits_get_or_create_palette_index(self, state) ==
    LET known == Chunk4Bits_corresponding_palette_index(self, state)
        free == {i \in DOMAIN self.palette : self.palette[i] = 0}
    IN  IF known # None THEN [index |-> known, self |-> self]
        ELSE IF free # {}
             THEN [index |-> (Min(free) % U8Modulus) + 1,
                   self |-> [self EXCEPT !.palette[Min(free)] = state]]
             ELSE [index |-> None, self |-> self]

Chunk4Bits_get_block_state_from_index(self, palette_index) ==
    IF palette_index = 0 THEN AIR ELSE self.palette[palette_index - 1]

(***************************************************************************)
(* Chunk8Bits                                                              *)
(***************************************************************************)
Chunk8Bits_new ==
    [tag |-> "Chunk8bits",
     palette |-> [i \in 0..(Chunk8BitsPaletteLen - 1) |-> AVAILABLE_PALETTE_ENTRY],
     blocks |-> [i \in 0..(ChunkVolume - 1) |-> 0]]

Chunk8Bits_promote_to(self, native_chunk) ==
    [native_chunk EXCEPT !.blocks =
        [i \in DOMAIN self.blocks |->
            Chunk8Bits_get_block_state_from_index(self, self.blocks[i])]]

Chunk8Bits_get_block(self, pos) ==
    Chunk8Bits_get_block_state_from_index(self, self.blocks[linear_coord(pos)])

\* mutant: the index is stored for the voxel and for the one after it
Chunk8Bits_try_set_block_pair(self, pos, state) ==
    LET r == Chunk8Bits_get_or_create_palette_index(self, state)
    IN  IF r.index # None
        THEN [ok |-> TRUE,
              self |-> [r.self EXCEPT !.blocks[linear_coord(pos)] = r.index,
                                      !.blocks[(linear_coord(pos) + 1) % ChunkVolume] = r.index]]
        ELSE [ok |-> FALSE, self |-> r.self]

Chunk8Bits_try_set_block(self, pos, state) ==
    LET r == Chunk8Bits_get_or_create_palette_index(self, state)
    IN  IF r.index # None
        THEN [ok |-> TRUE, self |-> [r.self EXCEPT !.blocks[linear_coord(pos)] = r.index]]
        ELSE [ok |-> FALSE, self |-> r.self]

(***************************************************************************)
(* Chunk4Bits                                                              *)
(***************************************************************************)
Chunk4Bits_new ==
    [tag |-> "Chunk4bits",
     palette |-> [i \in 0..(Chunk4BitsPaletteLen - 1) |-> AVAILABLE_PALETTE_ENTRY],
     blocks |-> [i \in 0..((ChunkVolume \div 2) - 1) |-> 0]]

\* mutant: the two halves of each byte are unpacked in the wrong order
Chunk4Bits_promote_to_swapped(self, chunk8bits) ==
    [chunk8bits EXCEPT
        !.palette = [i \in DOMAIN chunk8bits.palette |->
                        IF i \in DOMAIN self.palette THEN self.palette[i]
                        ELSE chunk8bits.palette[i]],
        !.blocks = [j \in DOMAIN chunk8bits.blocks |->
                        IF j % 2 = 0 THEN Shr4(self.blocks[j \div 2])
                        ELSE self.blocks[j \div 2] % 16]]

Chunk4Bits_promote_to(self, chunk8bits) ==
    [chunk8bits EXCEPT
        !.palette = [i \in DOMAIN chunk8bits.palette |->
                        IF i \in DOMAIN self.palette THEN self.palette[i]
                        ELSE chunk8bits.palette[i]],
        !.blocks = [j \in DOMAIN chunk8bits.blocks |->
                        IF j % 2 = 0 THEN self.blocks[j \div 2] % 16
                        ELSE Shr4(self.blocks[j \div 2])]]

Chunk4Bits_get_block(self, pos) ==
    LET lc == linear_coord(pos)
        array_index == lc \div 2
        is_first_half == (lc % 2 = 0)
        palette_index == IF is_first_half THEN self.blocks[array_index] % 16
                         ELSE Shr4(self.blocks[array_index])
    IN  Chunk4Bits_get_block_state_from_index(self, palette_index)

\* mutant: a full palette is reported as a successful write
Chunk4Bits_try_set_block_drop(self, pos, state) ==
    LET r == Chunk4Bits_get_or_create_palette_index(self, state)
        lc == linear_coord(pos)
        array_index == lc \div 2
        is_first_half == (lc % 2 = 0)
        old == r.self.blocks[array_index]
    IN  IF r.index # None
        THEN [ok |-> TRUE,
              self |-> [r.self EXCEPT !.blocks[array_index] =
                          IF is_first_half
                          THEN BitOr(BitAnd(old, 240), r.index)
                          ELSE BitOr(BitAnd(old, 15), Shl4(r.index))]]
        ELSE [ok |-> TRUE, self |-> r.self]

\* mutant: the half byte is or-ed in without clearing the old index
Chunk4Bits_try_set_block_nomask(self, pos, state) ==
    LET r == Chunk4Bits_get_or_create_palette_index(self, state)
        lc == linear_coord(pos)
        array_index == lc \div 2
        is_first_half == (lc % 2 = 0)
        old == r.self.blocks[array_index]
    IN  IF r.index # None
        THEN [ok |-> TRUE,
              self |-> [r.self EXCEPT !.blocks[array_index] =
                          IF is_first_half
                          THEN BitOr(old, r.index)
                          ELSE BitOr(old, Shl4(r.index))]]
        ELSE [ok |-> FALSE, self |-> r.self]

Chunk4Bits_try_set_block(self, pos, state) ==
    LET r == Chunk4Bits_get_or_create_palette_index(self, state)
        lc == linear_coord(pos)
        array_index == lc \div 2
        is_first_half == (lc % 2 = 0)
        old == r.self.blocks[array_index]
    IN  IF r.index # None
        THEN [ok |-> TRUE,
              self |-> [r.self EXCEPT !.blocks[array_index] =
                          IF is_first_half
                          THEN BitOr(BitAnd(old, 240), r.index)
                          ELSE BitOr(BitAnd(old, 15), Shl4(r.index))]]
        ELSE [ok |-> FALSE, self |-> r.self]

(***************************************************************************)
(* Chunk                                                                   *)
(***************************************************************************)
ChunkEmpty == [tag |-> "ChunkEmpty"]

Chunk_new(position) == [position |-> position, handle |-> ChunkEmpty]

\* mutant: an empty chunk is promoted straight to the 8-bit format
Chunk_promote_skip(self) ==
    CASE self.handle.tag = "ChunkNative" -> self
      [] self.handle.tag = "Chunk8bits" ->
            [self EXCEPT !.handle = Chunk8Bits_promote_to(self.handle, ChunkNative_new)]
      [] self.handle.tag = "Chunk4bits" ->
            [self EXCEPT !.handle = Chunk4Bits_promote_to(self.handle, Chunk8Bits_new)]
      [] self.handle.tag = "ChunkEmpty" ->
            [self EXCEPT !.handle = Chunk8Bits_new]

Chunk_promote(self) ==
    CASE self.handle.tag = "ChunkNative" -> self
      [] self.handle.tag = "Chunk8bits" ->
            [self EXCEPT !.handle = Chunk8Bits_promote_to(self.handle, ChunkNative_new)]
      [] self.handle.tag = "Chunk4bits" ->
            [self EXCEPT !.handle = Chunk4Bits_promote_to(self.handle, Chunk8Bits_new)]
      [] self.handle.tag = "ChunkEmpty" ->
            [self EXCEPT !.handle = Chunk4Bits_new]

Chunk_get_block(self, pos) ==
    CASE self.handle.tag = "ChunkNative" -> ChunkNative_get_block(self.handle, pos)
      [] self.handle.tag = "Chunk8bits" -> Chunk8Bits_get_block(self.handle, pos)
      [] self.handle.tag = "Chunk4bits" -> Chunk4Bits_get_block(self.handle, pos)
      [] self.handle.tag = "ChunkEmpty" -> AIR

\* mutant: writing air to an empty chunk is taken as done
Chunk_try_set_block_air_done(self, pos, state) ==
    CASE self.handle.tag = "ChunkNative" -> ChunkNative_try_set_block(self.handle, pos, state)
      [] self.handle.tag = "Chunk8bits" -> Chunk8Bits_try_set_block(self.handle, pos, state)
      [] self.handle.tag = "Chunk4bits" -> Chunk4Bits_try_set_block(self.handle, pos, state)
      [] self.handle.tag = "ChunkEmpty" -> [ok |-> (state = AIR), self |-> self.handle]

\* one evaluation of the match in the loop condition of set_block
Chunk_try_set_block(self, pos, state) ==
    CASE self.handle.tag = "ChunkNative" -> ChunkNative_try_set_block(self.handle, pos, state)
      [] self.handle.tag = "Chunk8bits" -> Chunk8Bits_try_set_block(self.handle, pos, state)
      [] self.handle.tag = "Chunk4bits" -> Chunk4Bits_try_set_block(self.handle, pos, state)
      [] self.handle.tag = "ChunkEmpty" -> [ok |-> FALSE, self |-> self.handle]

\* the loop of set_block; promotions counts the calls of promote() it makes
RECURSIVE Chunk_set_block_loop(_, _, _, _)
Chunk_set_block_loop(self, pos, state, promotions) ==
    LET r == Chunk_try_set_block(self, pos, state)
    IN  IF r.ok THEN [self |-> [self EXCEPT !.handle = r.self], promotions |-> promotions]
        ELSE Chunk_set_block_loop(Chunk_promote(self), pos, state, promotions + 1)

Chunk_set_block(self, pos, state) == Chunk_set_block_loop(self, pos, state, 0)

Chunk_is_empty(self) == self.handle.tag = "ChunkEmpty"

\* the bounds check of the indexing of blocks: a negative index, cast to usize,
\* is far beyond the end of the array
index_in_bounds(pos) == linear_coord(pos) >= 0 /\ linear_coord(pos) < ChunkVolume

\* get_block as a call that may panic: [panicked, value]
Chunk_get_block_call(self, pos) ==
    IF self.handle.tag = "ChunkEmpty" THEN [panicked |-> FALSE, value |-> AIR]
    ELSE IF ~assert_pos(pos) THEN [panicked |-> TRUE, value |-> None]
    ELSE IF ~index_in_bounds(pos) THEN [panicked |-> TRUE, value |-> None]
    ELSE [panicked |-> FALSE, value |-> Chunk_get_block(self, pos)]

\* one evaluation of the match of set_block as a call that may panic:
\* [panicked, ok, self]; a palette format looks up or creates the palette entry
\* before it indexes blocks
Chunk_try_set_block_call(self, pos, state) ==
    LET h == self.handle
        r == IF h.tag = "Chunk8bits" THEN Chunk8Bits_get_or_create_palette_index(h, state)
             ELSE Chunk4Bits_get_or_create_palette_index(h, state)
        done == Chunk_try_set_block(self, pos, state)
    IN  IF h.tag = "ChunkEmpty" THEN [panicked |-> FALSE, ok |-> FALSE, self |-> h]
        ELSE IF ~assert_pos(pos) THEN [panicked |-> TRUE, ok |-> FALSE, self |-> h]
        ELSE IF h.tag = "ChunkNative"
        THEN IF index_in_bounds(pos)
             THEN [panicked |-> FALSE, ok |-> done.ok, self |-> done.self]
             ELSE [panicked |-> TRUE, ok |-> FALSE, self |-> h]
        ELSE IF r.index = None THEN [panicked |-> FALSE, ok |-> FALSE, self |-> r.self]
        ELSE IF index_in_bounds(pos)
        THEN [panicked |-> FALSE, ok |-> done.ok, self |-> done.self]
        ELSE [panicked |-> TRUE, ok |-> FALSE, self |-> r.self]

\* the loop of set_block as a call that may panic: [panicked, self, promotions]
RECURSIVE Chunk_set_block_call_loop(_, _, _, _)
Chunk_set_block_call_loop(self, pos, state, promotions) ==
    LET r == Chunk_try_set_block_call(self, pos, state)
        after == [self EXCEPT !.handle = r.self]
    IN  IF r.panicked THEN [panicked |-> TRUE, self |-> after, promotions |-> promotions]
        ELSE IF r.ok THEN [panicked |-> FALSE, self |-> after, promotions |-> promotions]
        ELSE Chunk_set_block_call_loop(Chunk_promote(self), pos, state, promotions + 1)

Chunk_set_block_call(self, pos, state) == Chunk_set_block_call_loop(self, pos, state, 0)

(***************************************************************************)
(* Vec<T>: a function over 0..len-1                                        *)
(***************************************************************************)
VecNew == <<>>
VecLen(v) == Cardinality(DOMAIN v)
VecPush(v, x) == [i \in 0..VecLen(v) |-> IF i < VecLen(v) THEN v[i] ELSE x]
VecPop(v) == [i \in 0..(VecLen(v) - 2) |-> v[i]]
VecLast(v) == v[VecLen(v) - 1]
\* Vec::swap_remove: the last element takes the place of the removed one
VecSwapRemove(v, index) ==
    [i \in 0..(VecLen(v) - 2) |-> IF i = index THEN VecLast(v) ELSE v[i]]
\* Vec::resize to a greater length
VecResize(v, new_len, x) ==
    [i \in 0..(new_len - 1) |-> IF i < VecLen(v) THEN v[i] ELSE x]

(***************************************************************************)
(* SparseSet<T>                                                            *)
(***************************************************************************)
\* Uint::MAX, the sparse entry of an absent id.  Uint is kept 31 bits wide, the
\* widest the model checker's integers allow; no set modelled here comes near it.
EMPTY == 2147483647

DenseNode(id, value) == [sparse_pos |-> id, value |-> value]

SparseSet_new == [dense |-> VecNew, sparse |-> VecNew]

SparseSet_set_sparse_id(self, id, dense_pos) ==
    LET resized == IF id >= VecLen(self.sparse)
                   THEN VecResize(self.sparse, id + 1, EMPTY)
                   ELSE self.sparse
    IN  [self EXCEPT !.sparse = [resized EXCEPT ![id] = dense_pos]]

SparseSet_sparse_get_dense_pos(self, id) ==
    IF id \in DOMAIN self.sparse THEN self.sparse[id] ELSE EMPTY

\* returns [self, ret]: the set after the call and the Option<T> returned
SparseSet_insert(self, id, value) ==
    LET dense_pos == SparseSet_sparse_get_dense_pos(self, id)
        new_node == DenseNode(id, value)
    IN  IF dense_pos = EMPTY
        THEN [self |-> SparseSet_set_sparse_id(
                          [self EXCEPT !.dense = VecPush(self.dense, new_node)],
                          id, VecLen(self.dense)),
              ret |-> None]
        ELSE [self |-> [self EXCEPT !.dense[dense_pos] = new_node],
              ret |-> self.dense[dense_pos].value]

SparseSet_get(self, id) ==
    LET dense_pos == SparseSet_sparse_get_dense_pos(self, id)
    IN  IF dense_pos = EMPTY THEN None ELSE self.dense[dense_pos].value

\* mutant: the sparse entry of the element that moved is not updated
SparseSet_remove_stale(self, id) ==
    LET dense_pos == SparseSet_sparse_get_dense_pos(self, id)
    IN  IF VecLen(self.dense) = 0 THEN [self |-> self, ret |-> None]
        ELSE IF dense_pos = EMPTY THEN [self |-> self, ret |-> None]
        ELSE IF dense_pos = VecLen(self.dense) - 1
        THEN [self |-> [dense |-> VecPop(self.dense),
                        sparse |-> [self.sparse EXCEPT ![id] = EMPTY]],
              ret |-> VecLast(self.dense).value]
        ELSE [self |-> [dense |-> VecSwapRemove(self.dense, dense_pos),
                        sparse |-> [self.sparse EXCEPT ![id] = EMPTY]],
              ret |-> self.dense[dense_pos].value]

\* mutant: the value handed back is the one of the element that moved
SparseSet_remove_wrong_value(self, id) ==
    LET dense_pos == SparseSet_sparse_get_dense_pos(self, id)
    IN  IF VecLen(self.dense) = 0 THEN [self |-> self, ret |-> None]
        ELSE IF dense_pos = EMPTY THEN [self |-> self, ret |-> None]
        ELSE IF dense_pos = VecLen(self.dense) - 1
        THEN [self |-> [dense |-> VecPop(self.dense),
                        sparse |-> [self.sparse EXCEPT ![id] = EMPTY]],
              ret |-> VecLast(self.dense).value]
        ELSE LET last_element_sparse_pos == VecLast(self.dense).sparse_pos
             IN  [self |-> [dense |-> VecSwapRemove(self.dense, dense_pos),
                            sparse |-> [self.sparse EXCEPT
                                           ![id] = EMPTY,
                                           ![last_element_sparse_pos] = dense_pos]],
                  ret |-> VecLast(self.dense).value]

\* returns [self, ret]
SparseSet_remove(self, id) ==
    LET dense_pos == SparseSet_sparse_get_dense_pos(self, id)
    IN  IF VecLen(self.dense) = 0 THEN [self |-> self, ret |-> None]
        ELSE IF dense_pos = EMPTY THEN [self |-> self, ret |-> None]
        ELSE IF dense_pos = VecLen(self.dense) - 1
        THEN [self |-> [dense |-> VecPop(self.dense),
                        sparse |-> [self.sparse EXCEPT ![id] = EMPTY]],
              ret |-> VecLast(self.dense).value]
        ELSE LET last_element_sparse_pos == VecLast(self.dense).sparse_pos
             IN  [self |-> [dense |-> VecSwapRemove(self.dense, dense_pos),
                            sparse |-> [self.sparse EXCEPT
                                           ![id] = EMPTY,
                                           ![last_element_sparse_pos] = dense_pos]],
                  ret |-> self.dense[dense_pos].value]

SparseSet_len(self) == VecLen(self.dense)

\* what assert_sparse_valid asserts
SparseSet_assert_sparse_valid(self) ==
    \A dense_pos \in DOMAIN self.dense :
        dense_pos = SparseSet_sparse_get_dense_pos(self, self.dense[dense_pos].sparse_pos)

(***************************************************************************)
(* The SparseSet under test and its callers                                *)
(***************************************************************************)
\* the callers use the ids 0..MaxId and the values 1..MaxValue
MaxId == 2
MaxValue == 2
SparseIds == 0..MaxId
SparseValues == 1..MaxValue

SparseSetIdle ==
    /\ sparse_set = SparseSet_new
    /\ ss_ref = [id \in SparseIds |-> None]
    /\ ss_last = [op |-> "new", id |-> 0, ret |-> None, ref_ret |-> None, changed |-> FALSE]

(***************************************************************************)
(* IVec3, I16Vec3 and AABB                                                 *)
(***************************************************************************)
IVec3(x, y, z) == [x |-> x, y |-> y, z |-> z]
IVec3_ONE == IVec3(1, 1, 1)
IVec3_splat(v) == IVec3(v, v, v)
IVec3_add(a, b) == IVec3(a.x + b.x, a.y + b.y, a.z + b.z)
IVec3_mul(a, k) == IVec3(a.x * k, a.y * k, a.z * k)
IVec3_min(a, b) ==
    IVec3(IF a.x < b.x THEN a.x ELSE b.x, IF a.y < b.y THEN a.y ELSE b.y,
          IF a.z < b.z THEN a.z ELSE b.z)
IVec3_max(a, b) ==
    IVec3(IF a.x > b.x THEN a.x ELSE b.x, IF a.y > b.y THEN a.y ELSE b.y,
          IF a.z > b.z THEN a.z ELSE b.z)
\* the divisor is positive wherever these are used: \div and % are then the
\* euclidean quotient and remainder
IVec3_div_euclid(a, k) == IVec3(a.x \div k, a.y \div k, a.z \div k)
IVec3_rem_euclid(a, k) == IVec3(a.x % k, a.y % k, a.z % k)
\* the operators / and % of Rust round toward zero
TruncDiv(a, k) == IF a >= 0 THEN a \div k ELSE 0 - ((0 - a) \div k)
TruncRem(a, k) == a - k * TruncDiv(a, k)
IVec3_div(a, k) == IVec3(TruncDiv(a.x, k), TruncDiv(a.y, k), TruncDiv(a.z, k))
IVec3_rem(a, k) == IVec3(TruncRem(a.x, k), TruncRem(a.y, k), TruncRem(a.z, k))
\* the cast i32 -> i16 keeps the low 16 bits
I16Modulus == 65536
as_i16(v) == ((v + I16Modulus \div 2) % I16Modulus) - I16Modulus \div 2
IVec3_as_i16vec3(a) == IVec3(as_i16(a.x), as_i16(a.y), as_i16(a.z))
\* the cast i16 -> i32 keeps the value
I16Vec3_as_ivec3(a) == IVec3(a.x, a.y, a.z)

AABB_new(min, max) == [min |-> min, max |-> max]

\* the None of an Option that holds a record (a chunk, a box)
Nothing == [none |-> TRUE]

AABB_intersects(self, other) ==
    /\ self.min.x < other.max.x
    /\ self.max.x > other.min.x
    /\ self.min.y < other.max.y
    /\ self.max.y > other.min.y
    /\ self.min.z < other.max.z
    /\ self.max.z > other.min.z

\* Option<AABB>: Nothing or the intersection
AABB_get_intersection(self, other) ==
    LET min == IVec3_max(self.min, other.min)
        max == IVec3_min(self.max, other.max)
    IN  IF min.x < max.x /\ min.y < max.y /\ min.z < max.z
        THEN AABB_new(min, max)
        ELSE Nothing

AABB_totally_contains(self, other) ==
    /\ self.min.x <= other.min.x
    /\ self.max.x >= other.max.x
    /\ self.min.y <= other.min.y
    /\ self.max.y >= other.max.y
    /\ self.min.z <= other.min.z
    /\ self.max.z >= other.max.z

AABB_size(self) ==
    IVec3(self.max.x - self.min.x, self.max.y - self.min.y, self.max.z - self.min.z)

\* the two builds of the crate: arithmetic overflow panics with debug
\* assertions and wraps without them
Builds == {"debug", "release"}

I32Max == 2147483647
U16Modulus == 65536

\* a 32-bit word as [hi, lo], two 16-bit halves; an i32 is read in two's complement
ToU32(v) ==
    IF v >= 0 THEN [hi |-> v \div U16Modulus, lo |-> v % U16Modulus]
    ELSE LET u == (v + I32Max) + 1
         IN  [hi |-> u \div U16Modulus + U16Modulus \div 2, lo |-> u % U16Modulus]

FromU32(w) ==
    IF w.hi < U16Modulus \div 2 THEN w.hi * U16Modulus + w.lo
    ELSE ((w.hi - U16Modulus \div 2) * U16Modulus + w.lo - I32Max) - 1

\* the 32-bit product of two 16-bit halves, as [hi, lo]
Mul16(p, q) ==
    LET t1 == p * (q \div 256)
        t2 == p * (q % 256)
        sum == (t1 % 256) * 256 + (t2 % U16Modulus)
    IN  [hi |-> t1 \div 256 + t2 \div U16Modulus + sum \div U16Modulus,
         lo |-> sum % U16Modulus]

\* i32::wrapping_mul: the low 32 bits of the product
i32_wrapping_mul(a, b) ==
    LET x == ToU32(a)
        y == ToU32(b)
        low == Mul16(x.lo, y.lo)
    IN  FromU32([hi |-> (low.hi + Mul16(x.hi, y.lo).lo + Mul16(x.lo, y.hi).lo) % U16Modulus,
                 lo |-> low.lo])

\* the product a * b leaves the range of i32: above 2^31 - 1, or below -2^31
i32_mul_overflows(a, b) ==
    LET abs(v) == IF v < 0 THEN 0 - v ELSE v
        whole == IF (I32Max % abs(b)) + 1 = abs(b) THEN 1 ELSE 0
    IN  /\ a # 0
        /\ b # 0
        /\ IF (a < 0) = (b < 0)
           THEN abs(a) > I32Max \div abs(b)
           ELSE abs(a) > (I32Max \div abs(b)) + whole

\* a * b on i32, returns [panicked, value]
i32_mul(a, b, build) ==
    IF i32_mul_overflows(a, b) /\ build = "debug"
    THEN [panicked |-> TRUE, value |-> 0]
    ELSE [panicked |-> FALSE, value |-> i32_wrapping_mul(a, b)]

\* returns [panicked, value]
AABB_get_volume(self, build) ==
    LET size == AABB_size(self)
        xy == i32_mul(size.x, size.y, build)
        xyz == i32_mul(xy.value, size.z, build)
    IN  IF xy.panicked THEN xy ELSE xyz

\* the builds a caller has to tell apart for a box: the two builds compute the
\* same volume unless a product overflows
BuildsFor(box) ==
    IF AABB_get_volume(box, "debug").panicked THEN Builds ELSE {"release"}

\* Vec::with_capacity(volume as usize) for a Vec of references: a negative
\* volume becomes a length above isize::MAX bytes and the call panics with
\* "capacity overflow"; the memory of the machine is not modelled
Vec_with_capacity(volume) == [panicked |-> volume < 0]

(***************************************************************************)
(* IdTracker                                                               *)
(***************************************************************************)
IdTracker_new == [free |-> VecNew, next |-> 0]

IdTracker_free(self, id) == [self EXCEPT !.free = VecPush(self.free, id)]

\* mutant: the free list is served from its front
IdTracker_alloc_fifo(self) ==
    IF VecLen(self.free) > 0
    THEN [self |-> [self EXCEPT !.free = [i \in 0..(VecLen(self.free) - 2) |-> self.free[i + 1]]],
          id |-> self.free[0]]
    ELSE [self |-> [self EXCEPT !.next = self.next + 1], id |-> self.next]

\* returns [self, id]
IdTracker_alloc(self) ==
    IF VecLen(self.free) > 0
    THEN [self |-> [self EXCEPT !.free = VecPop(self.free)], id |-> VecLast(self.free)]
    ELSE [self |-> [self EXCEPT !.next = self.next + 1], id |-> self.next]

\* the IdTracker under test issues at most MaxIssued identifiers
MaxIssued == 4

NoTrackerCall ==
    [op |-> "new", id |-> None, prev_op |-> "new", prev_id |-> None,
     free_before |-> VecNew, next_before |-> 0]

TrackerIdle ==
    /\ tracker = IdTracker_new
    /\ tr_last = NoTrackerCall

(***************************************************************************)
(* The octree of a section                                                 *)
(***************************************************************************)
NODE_SUBDIVISION == 8

RECURSIVE Pow(_, _)
Pow(b, e) == IF e = 0 THEN 1 ELSE b * Pow(b, e - 1)

\* Node::SIDE_CHUNK_COUNT of the node of a level
SIDE_CHUNK_COUNT(level) == Pow(NODE_SUBDIVISION, level)
\* type Section = Level3
SectionLevel == 3

Bit(v, i) == (v \div Pow(2, i)) % 2

\* the Morton encoding: bit i of x, y and z lands on the bits 3i, 3i+1 and 3i+2
get_index_from_pos(pos) ==
    LET term(i) == Bit(pos.x, i) * Pow(2, 3 * i)
                 + Bit(pos.y, i) * Pow(2, 3 * i + 1)
                 + Bit(pos.z, i) * Pow(2, 3 * i + 2)
    IN  term(0) + term(1) + term(2) + term(3)

\* a predicate of the caller, as data: its kind decides what it answers for a box
Predicate_call(predicate, aabb) ==
    CASE predicate.kind = "always" -> TRUE
      [] predicate.kind = "never" -> FALSE
      [] predicate.kind = "region" -> AABB_intersects(aabb, predicate.region)

ITER ==
    << IVec3(0, 0, 0), IVec3(0, 0, 1), IVec3(0, 1, 0), IVec3(0, 1, 1),
       IVec3(1, 0, 0), IVec3(1, 0, 1), IVec3(1, 1, 0), IVec3(1, 1, 1) >>

get_aabb(pos, cube_size) == AABB_new(pos, IVec3_add(pos, IVec3_mul(IVec3_ONE, cube_size)))

\* what one call of the closure does with the box of a child, from what it
\* computed: [local_pos, side_child_count, aabb, intersects, called, satisfied,
\* skipped, index]: the box built, whether it intersects global_aabb, whether
\* the predicate was called on it, what the predicate answered, whether the
\* closure returned None and left the children of the box out, and the index
\* returned at the third level (None where the closure returns no index)
closure_evaluation(local_pos, side_child_count, aabb, intersects, called, satisfied, passes) ==
    [local_pos |-> local_pos, side_child_count |-> side_child_count,
     aabb |-> aabb, intersects |-> intersects, called |-> called,
     satisfied |-> satisfied, skipped |-> ~passes,
     index |-> IF passes /\ side_child_count = 1 THEN get_index_from_pos(local_pos) ELSE None]

\* mutant: the closure returns None only when the box neither intersects
\* global_aabb nor satisfies the predicate
closure_neither(local_pos, side_child_count, aabb, intersects, answer) ==
    closure_evaluation(local_pos, side_child_count, aabb, intersects, ~intersects,
                       ~intersects /\ answer, intersects \/ answer)

\* mutant: a box that global_aabb totally contains passes without a call of
\* the predicate
closure_contained(local_pos, side_child_count, aabb, intersects, contained, answer) ==
    closure_evaluation(local_pos, side_child_count, aabb, intersects, intersects /\ ~contained,
                       intersects /\ ~contained /\ answer,
                       contained \/ (intersects /\ answer))

\* if !intersects || !predicate(aabb) { return None; }: the right side of ||
\* runs only when the box intersects
closure(local_pos, side_child_count, aabb, intersects, answer) ==
    closure_evaluation(local_pos, side_child_count, aabb, intersects, intersects,
                       intersects /\ answer, intersects /\ answer)

RECURSIVE tree_index_level_neither(_, _, _, _, _, _)
tree_index_level_neither(outer_pos, outer_count, global_pos, global_aabb, child_side_chunk_count, predicate) ==
    LET side_child_count == outer_count \div 2
        visit(template_pos) ==
            LET local_pos == IVec3_add(outer_pos, IVec3_mul(template_pos, side_child_count))
                aabb == get_aabb(IVec3_add(local_pos, global_pos),
                                 side_child_count * child_side_chunk_count)
            IN  Bind(closure_neither(local_pos, side_child_count, aabb,
                                     AABB_intersects(global_aabb, aabb),
                                     Predicate_call(predicate, aabb)),
                     LAMBDA evaluation :
                        IF evaluation.skipped \/ side_child_count = 1
                        THEN <<evaluation>>
                        ELSE <<evaluation>>
                             \o tree_index_level_neither(local_pos, side_child_count, global_pos,
                                                         global_aabb, child_side_chunk_count, predicate))
    IN  Flatten([k \in 1..Len(ITER) |-> visit(ITER[k])])

RECURSIVE tree_index_level_contained(_, _, _, _, _, _)
tree_index_level_contained(outer_pos, outer_count, global_pos, global_aabb, child_side_chunk_count, predicate) ==
    LET side_child_count == outer_count \div 2
        visit(template_pos) ==
            LET local_pos == IVec3_add(outer_pos, IVec3_mul(template_pos, side_child_count))
                aabb == get_aabb(IVec3_add(local_pos, global_pos),
                                 side_child_count * child_side_chunk_count)
            IN  Bind(closure_contained(local_pos, side_child_count, aabb,
                                       AABB_intersects(global_aabb, aabb),
                                       AABB_totally_contains(global_aabb, aabb),
                                       Predicate_call(predicate, aabb)),
                     LAMBDA evaluation :
                        IF evaluation.skipped \/ side_child_count = 1
                        THEN <<evaluation>>
                        ELSE <<evaluation>>
                             \o tree_index_level_contained(local_pos, side_child_count, global_pos,
                                                           global_aabb, child_side_chunk_count, predicate))
    IN  Flatten([k \in 1..Len(ITER) |-> visit(ITER[k])])

\* one level of iteration of tree_index_iterator, under the local position and
\* the side_child_count of the level above: the evaluations of the closure over
\* ITER, in order, each followed by the evaluations of the level below it
RECURSIVE tree_index_level(_, _, _, _, _, _)
tree_index_level(outer_pos, outer_count, global_pos, global_aabb, child_side_chunk_count, predicate) ==
    LET side_child_count == outer_count \div 2
        visit(template_pos) ==
            LET local_pos == IVec3_add(outer_pos, IVec3_mul(template_pos, side_child_count))
                aabb == get_aabb(IVec3_add(local_pos, global_pos),
                                 side_child_count * child_side_chunk_count)
            IN  Bind(closure(local_pos, side_child_count, aabb,
                             AABB_intersects(global_aabb, aabb),
                             Predicate_call(predicate, aabb)),
                     LAMBDA evaluation :
                        IF evaluation.skipped \/ side_child_count = 1
                        THEN <<evaluation>>
                        ELSE <<evaluation>>
                             \o tree_index_level(local_pos, side_child_count, global_pos, global_aabb,
                                                 child_side_chunk_count, predicate))
    IN  Flatten([k \in 1..Len(ITER) |-> visit(ITER[k])])

\* the evaluations of the closures of tree_index_iterator, in order
tree_index_evaluations(global_pos, global_aabb, child_side_chunk_count, predicate) ==
    tree_index_level(IVec3(0, 0, 0), NODE_SUBDIVISION, global_pos, global_aabb,
                     child_side_chunk_count, predicate)

\* the sequence of the child indexes the iterator yields
tree_index_iterator(global_pos, global_aabb, child_side_chunk_count, predicate) ==
    Bind(SelectSeq(tree_index_evaluations(global_pos, global_aabb,
                                          child_side_chunk_count, predicate),
                   LAMBDA evaluation : evaluation.index # None),
         LAMBDA yielded : [k \in 1..Len(yielded) |-> yielded[k].index])

\* Leaf { chunk, id }
Leaf(the_chunk, id) == [chunk |-> the_chunk, id |-> id]

\* the children array of a node: a function over the indexes that hold Some
NoChildren == [index \in {} |-> Nothing]
SetChild(children, index, child) == (index :> child) @@ children

Level1_new(global_pos) == [global_pos |-> global_pos, children |-> NoChildren]

\* Node::get_aabb of Level1 and of LevelN
Node_get_aabb(level, self) ==
    AABB_new(self.global_pos,
             IVec3_add(self.global_pos, IVec3_splat(SIDE_CHUNK_COUNT(level))))

Level1_get_chunk(self, pos) ==
    LET index == get_index_from_pos(pos)
    IN  IF index \in DOMAIN self.children THEN self.children[index].chunk ELSE Nothing

\* returns [self, chunk]: the node after the call and the chunk borrowed
Level1_get_chunk_mut(self, pos) ==
    LET index == get_index_from_pos(pos)
    IN  [self |-> self,
         chunk |-> IF index \in DOMAIN self.children THEN self.children[index].chunk ELSE Nothing]

\* mutant: the tracker is left as it was found
Level1_emplace_chunk_same_id(self, the_chunk, pos, id_tracker) ==
    LET index == get_index_from_pos(pos)
        a == IdTracker_alloc(id_tracker)
    IN  [self |-> [self EXCEPT !.children = SetChild(self.children, index, Leaf(the_chunk, a.id))],
         id_tracker |-> id_tracker,
         id |-> a.id]

\* returns [self, id_tracker, id]
Level1_emplace_chunk(self, the_chunk, pos, id_tracker) ==
    LET index == get_index_from_pos(pos)
        a == IdTracker_alloc(id_tracker)
    IN  [self |-> [self EXCEPT !.children = SetChild(self.children, index, Leaf(the_chunk, a.id))],
         id_tracker |-> a.self,
         id |-> a.id]

\* the indexes of the children that hold Some, in the order of the array
RECURSIVE IndexesInOrder(_)
IndexesInOrder(indexes) ==
    IF indexes = {} THEN <<>>
    ELSE LET first == CHOOSE i \in indexes : \A j \in indexes : i <= j
         IN  <<first>> \o IndexesInOrder(indexes \ {first})

\* the calls of out_func, in order: a sequence of [id, chunk]
Level1_for_all_chunks(self) ==
    LET some == IndexesInOrder(DOMAIN self.children)
    IN  [k \in 1..Len(some) |->
            [id |-> self.children[some[k]].id, chunk |-> self.children[some[k]].chunk]]

\* the calls of out_func, in order
Level1_for_chunk_in(self, global_aabb) ==
    LET this_aabb == Node_get_aabb(1, self)
        all == Level1_for_all_chunks(self)
        hit(call) == AABB_intersects(global_aabb,
                         AABB_new(call.chunk.position, IVec3_add(call.chunk.position, IVec3_ONE)))
    IN  IF ~AABB_intersects(global_aabb, this_aabb) THEN <<>>
        ELSE IF AABB_totally_contains(global_aabb, this_aabb) THEN all
        ELSE SelectSeq(all, hit)

\* the calls of out_func, in order: a sequence of [id, chunk]
Level1_for_chunk_with_predicate(self, global_aabb, predicate) ==
    LET this_aabb == Node_get_aabb(1, self)
        iter == tree_index_iterator(self.global_pos, global_aabb, 1, predicate)
        some == SelectSeq(iter, LAMBDA index : index \in DOMAIN self.children)
    IN  IF ~AABB_intersects(global_aabb, this_aabb) /\ ~Predicate_call(predicate, this_aabb)
        THEN <<>>
        ELSE [k \in 1..Len(some) |->
                 [id |-> self.children[some[k]].id, chunk |-> self.children[some[k]].chunk]]

\* the calls of out_func, in order; Level1 runs the same statements with a
\* mutable borrow
Level1_for_chunk_with_predicate_mut(self, global_aabb, predicate) ==
    LET this_aabb == Node_get_aabb(1, self)
        iter == tree_index_iterator(self.global_pos, global_aabb, 1, predicate)
        some == SelectSeq(iter, LAMBDA index : index \in DOMAIN self.children)
    IN  IF ~AABB_intersects(global_aabb, this_aabb) /\ ~Predicate_call(predicate, this_aabb)
        THEN <<>>
        ELSE [k \in 1..Len(some) |->
                 [id |-> self.children[some[k]].id, chunk |-> self.children[some[k]].chunk]]

LevelN_new(global_pos) == [global_pos |-> global_pos, children |-> NoChildren]

\* returns [local_pos, pos_in_child]
LevelN_split_pos(level, pos) ==
    LET chunk_per_child == TruncDiv(SIDE_CHUNK_COUNT(level), NODE_SUBDIVISION)
    IN  [local_pos |-> IVec3_div(pos, chunk_per_child),
         pos_in_child |-> IVec3_rem(pos, chunk_per_child)]

RECURSIVE LevelN_get_chunk(_, _, _)
LevelN_get_chunk(level, self, pos) ==
    LET split == LevelN_split_pos(level, pos)
        index == get_index_from_pos(split.local_pos)
    IN  IF index \notin DOMAIN self.children THEN Nothing
        ELSE IF level = 2 THEN Level1_get_chunk(self.children[index], split.pos_in_child)
        ELSE LevelN_get_chunk(level - 1, self.children[index], split.pos_in_child)

\* returns [self, chunk]
RECURSIVE LevelN_get_chunk_mut(_, _, _)
LevelN_get_chunk_mut(level, self, pos) ==
    LET split == LevelN_split_pos(level, pos)
        index == get_index_from_pos(split.local_pos)
        r == IF level = 2 THEN Level1_get_chunk_mut(self.children[index], split.pos_in_child)
             ELSE LevelN_get_chunk_mut(level - 1, self.children[index], split.pos_in_child)
    IN  IF index \notin DOMAIN self.children THEN [self |-> self, chunk |-> Nothing]
        ELSE [self |-> [self EXCEPT !.children[index] = r.self], chunk |-> r.chunk]

\* mutant: the position of a new child is not scaled by the side of the child
RECURSIVE LevelN_emplace_chunk_unscaled(_, _, _, _, _)
LevelN_emplace_chunk_unscaled(level, self, the_chunk, pos, id_tracker) ==
    LET split == LevelN_split_pos(level, pos)
        index == get_index_from_pos(split.local_pos)
        global_pos == IVec3_add(self.global_pos, split.local_pos)
        child == IF index \in DOMAIN self.children THEN self.children[index]
                 ELSE IF level = 2 THEN Level1_new(global_pos)
                 ELSE LevelN_new(global_pos)
        r == IF level = 2
             THEN Level1_emplace_chunk(child, the_chunk, split.pos_in_child, id_tracker)
             ELSE LevelN_emplace_chunk_unscaled(level - 1, child, the_chunk, split.pos_in_child,
                                                id_tracker)
    IN  [self |-> [self EXCEPT !.children = SetChild(self.children, index, r.self)],
         id_tracker |-> r.id_tracker,
         id |-> r.id]

\* returns [self, id_tracker, id]
RECURSIVE LevelN_emplace_chunk(_, _, _, _, _)
LevelN_emplace_chunk(level, self, the_chunk, pos, id_tracker) ==
    LET split == LevelN_split_pos(level, pos)
        index == get_index_from_pos(split.local_pos)
        global_pos == IVec3_add(self.global_pos,
                                IVec3_mul(split.local_pos, SIDE_CHUNK_COUNT(level - 1)))
        child == IF index \in DOMAIN self.children THEN self.children[index]
                 ELSE IF level = 2 THEN Level1_new(global_pos)
                 ELSE LevelN_new(global_pos)
        r == IF level = 2
             THEN Level1_emplace_chunk(child, the_chunk, split.pos_in_child, id_tracker)
             ELSE LevelN_emplace_chunk(level - 1, child, the_chunk, split.pos_in_child, id_tracker)
    IN  [self |-> [self EXCEPT !.children = SetChild(self.children, index, r.self)],
         id_tracker |-> r.id_tracker,
         id |-> r.id]

\* the leaves for_all_chunks visits, as a set
RECURSIVE Node_for_all_chunks(_, _)
Node_for_all_chunks(level, self) ==
    IF level = 1 THEN {self.children[index] : index \in DOMAIN self.children}
    ELSE UNION {Node_for_all_chunks(level - 1, self.children[index]) :
                   index \in DOMAIN self.children}

\* the calls of out_func, in order
RECURSIVE LevelN_for_chunk_with_predicate(_, _, _, _)
LevelN_for_chunk_with_predicate(level, self, global_aabb, predicate) ==
    LET this_aabb == Node_get_aabb(level, self)
        iter == tree_index_iterator(self.global_pos, global_aabb,
                                    SIDE_CHUNK_COUNT(level), predicate)
        some == SelectSeq(iter, LAMBDA index : index \in DOMAIN self.children)
    IN  IF ~AABB_intersects(global_aabb, this_aabb) /\ ~Predicate_call(predicate, this_aabb)
        THEN <<>>
        ELSE Flatten([k \in 1..Len(some) |->
                 IF level = 2
                 THEN Level1_for_chunk_with_predicate(self.children[some[k]],
                                                      global_aabb, predicate)
                 ELSE LevelN_for_chunk_with_predicate(level - 1, self.children[some[k]],
                                                      global_aabb, predicate)])

\* the calls of out_func, in order; the iterator is built with T::SIDE_CHUNK_COUNT
RECURSIVE LevelN_for_chunk_with_predicate_mut(_, _, _, _)
LevelN_for_chunk_with_predicate_mut(level, self, global_aabb, predicate) ==
    LET this_aabb == Node_get_aabb(level, self)
        iter == tree_index_iterator(self.global_pos, global_aabb,
                                    SIDE_CHUNK_COUNT(level - 1), predicate)
        some == SelectSeq(iter, LAMBDA index : index \in DOMAIN self.children)
    IN  IF ~AABB_intersects(global_aabb, this_aabb) /\ ~Predicate_call(predicate, this_aabb)
        THEN <<>>
        ELSE Flatten([k \in 1..Len(some) |->
                 IF level = 2
                 THEN Level1_for_chunk_with_predicate_mut(self.children[some[k]],
                                                          global_aabb, predicate)
                 ELSE LevelN_for_chunk_with_predicate_mut(level - 1, self.children[some[k]],
                                                          global_aabb, predicate)])

\* the record of one evaluation made inside a node: the evaluation of the
\* iterator with the node it was made in, the box the node was asked about,
\* whether the subtree was left out, the leaf handed to out_func, and (for the
\* test of a node on its own box) the chunks loaded below the node
NodeEvaluation(level, self, global_aabb, evaluation, leaf) ==
    [node_level |-> level, node_pos |-> self.global_pos, kind |-> "octants",
     query |-> global_aabb, local_pos |-> evaluation.local_pos,
     side_child_count |-> evaluation.side_child_count, aabb |-> evaluation.aabb,
     intersects |-> evaluation.intersects, called |-> evaluation.called,
     satisfied |-> evaluation.satisfied, skipped |-> evaluation.skipped, leaf |-> leaf,
     below |-> {}]

\* the record of the test a node makes on its own box before it builds the
\* iterator: the predicate is called only when the box does not intersect
NodeEntry(level, self, global_aabb, predicate) ==
    LET this_aabb == Node_get_aabb(level, self)
        intersects == AABB_intersects(global_aabb, this_aabb)
        satisfied == ~intersects /\ Predicate_call(predicate, this_aabb)
    IN  [node_level |-> level, node_pos |-> self.global_pos, kind |-> "node",
         query |-> global_aabb, local_pos |-> IVec3(0, 0, 0),
         side_child_count |-> NODE_SUBDIVISION, aabb |-> this_aabb,
         intersects |-> intersects, called |-> ~intersects,
         satisfied |-> satisfied, skipped |-> ~intersects /\ ~satisfied, leaf |-> Nothing,
         below |-> {l.chunk : l \in Node_for_all_chunks(level, self)}]

\* the evaluations for_chunk_with_predicate and for_chunk_with_predicate_mut of
\* a Level1 make, in order
Level1_predicate_evaluations(self, global_aabb, predicate) ==
    LET entry == NodeEntry(1, self, global_aabb, predicate)
        evaluations == tree_index_evaluations(self.global_pos, global_aabb, 1, predicate)
        leaf(evaluation) ==
            IF evaluation.index # None /\ evaluation.index \in DOMAIN self.children
            THEN self.children[evaluation.index].chunk ELSE Nothing
    IN  IF entry.skipped THEN <<entry>>
        ELSE <<entry>> \o [k \in 1..Len(evaluations) |->
                 NodeEvaluation(1, self, global_aabb, evaluations[k], leaf(evaluations[k]))]

\* the evaluations for_chunk_with_predicate (mutable FALSE) and
\* for_chunk_with_predicate_mut (mutable TRUE) of a LevelN make, with those of
\* the children they call
RECURSIVE LevelN_predicate_evaluations(_, _, _, _, _)
LevelN_predicate_evaluations(level, self, global_aabb, predicate, mutable) ==
    LET entry == NodeEntry(level, self, global_aabb, predicate)
        child_side_chunk_count == IF mutable THEN SIDE_CHUNK_COUNT(level - 1)
                                  ELSE SIDE_CHUNK_COUNT(level)
        evaluations == tree_index_evaluations(self.global_pos, global_aabb,
                                              child_side_chunk_count, predicate)
        iter == tree_index_iterator(self.global_pos, global_aabb,
                                    child_side_chunk_count, predicate)
        some == SelectSeq(iter, LAMBDA index : index \in DOMAIN self.children)
    IN  IF entry.skipped THEN <<entry>>
        ELSE <<entry>>
             \o [k \in 1..Len(evaluations) |->
                    NodeEvaluation(level, self, global_aabb, evaluations[k], Nothing)]
             \o Flatten([k \in 1..Len(some) |->
                    IF level = 2
                    THEN Level1_predicate_evaluations(self.children[some[k]],
                                                      global_aabb, predicate)
                    ELSE LevelN_predicate_evaluations(level - 1, self.children[some[k]],
                                                      global_aabb, predicate, mutable)])

\* the calls of out_func, in order
RECURSIVE LevelN_for_all_chunks(_, _)
LevelN_for_all_chunks(level, self) ==
    LET some == IndexesInOrder(DOMAIN self.children)
    IN  Flatten([k \in 1..Len(some) |->
            IF level = 2 THEN Level1_for_all_chunks(self.children[some[k]])
            ELSE LevelN_for_all_chunks(level - 1, self.children[some[k]])])

\* the calls of out_func, in order
RECURSIVE LevelN_for_chunk_in(_, _, _)
LevelN_for_chunk_in(level, self, global_aabb) ==
    LET this_aabb == Node_get_aabb(level, self)
        some == IndexesInOrder(DOMAIN self.children)
    IN  IF ~AABB_intersects(global_aabb, this_aabb) THEN <<>>
        ELSE IF AABB_totally_contains(global_aabb, this_aabb)
        THEN LevelN_for_all_chunks(level, self)
        ELSE Flatten([k \in 1..Len(some) |->
                 IF level = 2 THEN Level1_for_chunk_in(self.children[some[k]], global_aabb)
                 ELSE LevelN_for_chunk_in(level - 1, self.children[some[k]], global_aabb)])

(***************************************************************************)
(* ChunkManager                                                            *)
(***************************************************************************)
\* the HashMap: a function over the keys it holds
NoSections == [region_pos \in {} |-> Nothing]

ChunkManager_new ==
    [section_map |-> NoSections, chunk_id_tracker |-> IdTracker_new, chunk_modified |-> VecNew]

ChunkManager_make_dirty(self, id) ==
    [self EXCEPT !.chunk_modified = VecPush(self.chunk_modified, id)]

\* mutant: the section is taken with the division that rounds toward zero
ChunkManager_insert_chunk_trunc(self, the_chunk) ==
    LET pos == the_chunk.position
        region_pos == IVec3_as_i16vec3(IVec3_div(pos, SIDE_CHUNK_COUNT(SectionLevel)))
        local_pos == IVec3_rem_euclid(pos, SIDE_CHUNK_COUNT(SectionLevel))
        section == IF region_pos \in DOMAIN self.section_map
                   THEN self.section_map[region_pos]
                   ELSE LevelN_new(IVec3_mul(I16Vec3_as_ivec3(region_pos),
                                             SIDE_CHUNK_COUNT(SectionLevel)))
        r == LevelN_emplace_chunk(SectionLevel, section, the_chunk, local_pos, self.chunk_id_tracker)
    IN  [self |-> ChunkManager_make_dirty(
                     [self EXCEPT !.section_map = (region_pos :> r.self) @@ self.section_map,
                                  !.chunk_id_tracker = r.id_tracker],
                     r.id),
         id |-> r.id]

\* mutant: the chunk is stored and its Id is not pushed on the dirty list
ChunkManager_insert_chunk_quiet(self, the_chunk) ==
    LET pos == the_chunk.position
        region_pos == IVec3_as_i16vec3(IVec3_div_euclid(pos, SIDE_CHUNK_COUNT(SectionLevel)))
        local_pos == IVec3_rem_euclid(pos, SIDE_CHUNK_COUNT(SectionLevel))
        section == IF region_pos \in DOMAIN self.section_map
                   THEN self.section_map[region_pos]
                   ELSE LevelN_new(IVec3_mul(I16Vec3_as_ivec3(region_pos),
                                             SIDE_CHUNK_COUNT(SectionLevel)))
        r == LevelN_emplace_chunk(SectionLevel, section, the_chunk, local_pos, self.chunk_id_tracker)
    IN  [self |-> [self EXCEPT !.section_map = (region_pos :> r.self) @@ self.section_map,
                               !.chunk_id_tracker = r.id_tracker],
         id |-> r.id]

\* returns [self, id]: the manager after the call and the Id given to the chunk
ChunkManager_insert_chunk(self, the_chunk) ==
    LET pos == the_chunk.position
        region_pos == IVec3_as_i16vec3(IVec3_div_euclid(pos, SIDE_CHUNK_COUNT(SectionLevel)))
        local_pos == IVec3_rem_euclid(pos, SIDE_CHUNK_COUNT(SectionLevel))
        section == IF region_pos \in DOMAIN self.section_map
                   THEN self.section_map[region_pos]
                   ELSE LevelN_new(IVec3_mul(I16Vec3_as_ivec3(region_pos),
                                             SIDE_CHUNK_COUNT(SectionLevel)))
        r == LevelN_emplace_chunk(SectionLevel, section, the_chunk, local_pos, self.chunk_id_tracker)
    IN  [self |-> ChunkManager_make_dirty(
                     [self EXCEPT !.section_map = (region_pos :> r.self) @@ self.section_map,
                                  !.chunk_id_tracker = r.id_tracker],
                     r.id),
         id |-> r.id]

ChunkManager_get_chunk(self, pos) ==
    LET region_pos == IVec3_as_i16vec3(IVec3_div_euclid(pos, SIDE_CHUNK_COUNT(SectionLevel)))
        local_pos == IVec3_rem_euclid(pos, SIDE_CHUNK_COUNT(SectionLevel))
    IN  IF region_pos \in DOMAIN self.section_map
        THEN LevelN_get_chunk(SectionLevel, self.section_map[region_pos], local_pos)
        ELSE Nothing

\* returns [self, chunk]: the manager after the call and the chunk borrowed
ChunkManager_get_chunk_mut(self, pos) ==
    LET region_pos == IVec3_as_i16vec3(IVec3_div_euclid(pos, SIDE_CHUNK_COUNT(SectionLevel)))
        local_pos == IVec3_rem_euclid(pos, SIDE_CHUNK_COUNT(SectionLevel))
        r == LevelN_get_chunk_mut(SectionLevel, self.section_map[region_pos], local_pos)
    IN  IF region_pos \in DOMAIN self.section_map
        THEN [self |-> [self EXCEPT !.section_map[region_pos] = r.self], chunk |-> r.chunk]
        ELSE [self |-> self, chunk |-> Nothing]

\* the order in which the HashMap hands out its keys is not specified; the
\* model takes one order
RECURSIVE KeysInOrder(_)
KeysInOrder(keys) ==
    IF keys = {} THEN <<>>
    ELSE LET k == CHOOSE k \in keys : TRUE IN <<k>> \o KeysInOrder(keys \ {k})

\* the calls of out_func, in order
ChunkManager_foreach_chunk_with_predicate(self, chunk_aabb, predicate) ==
    LET keys == KeysInOrder(DOMAIN self.section_map)
        visit(pos) ==
            LET section_aabb ==
                    AABB_new(IVec3_mul(I16Vec3_as_ivec3(pos), SIDE_CHUNK_COUNT(SectionLevel)),
                             IVec3_mul(IVec3_add(I16Vec3_as_ivec3(pos), IVec3_ONE),
                                       SIDE_CHUNK_COUNT(SectionLevel)))
                intersection == AABB_get_intersection(chunk_aabb, section_aabb)
            IN  IF intersection # Nothing
                THEN LevelN_for_chunk_with_predicate(SectionLevel, self.section_map[pos],
                                                     intersection, predicate)
                ELSE <<>>
    IN  Flatten([k \in 1..Len(keys) |-> visit(keys[k])])

\* the box of the section stored under the key pos
Section_aabb(pos) ==
    AABB_new(IVec3_mul(I16Vec3_as_ivec3(pos), SIDE_CHUNK_COUNT(SectionLevel)),
             IVec3_mul(IVec3_add(I16Vec3_as_ivec3(pos), IVec3_ONE), SIDE_CHUNK_COUNT(SectionLevel)))

\* the calls of out_func, in order
ChunkManager_foreach_chunk_in(self, chunk_aabb) ==
    LET keys == KeysInOrder(DOMAIN self.section_map)
        visit(pos) ==
            LET intersection == AABB_get_intersection(chunk_aabb, Section_aabb(pos))
            IN  IF intersection # Nothing
                THEN LevelN_for_chunk_in(SectionLevel, self.section_map[pos], intersection)
                ELSE <<>>
    IN  Flatten([k \in 1..Len(keys) |-> visit(keys[k])])

\* returns [panicked, capacity, chunks]: whether the call panicked, the
\* capacity asked for the Vec and the Vec returned
ChunkManager_get_chunks_in(self, chunk_aabb, build) ==
    LET volume == AABB_get_volume(chunk_aabb, build)
        out == ChunkManager_foreach_chunk_in(self, chunk_aabb)
    IN  IF volume.panicked \/ Vec_with_capacity(volume.value).panicked
        THEN [panicked |-> TRUE, capacity |-> None, chunks |-> <<>>]
        ELSE [panicked |-> FALSE, capacity |-> volume.value,
              chunks |-> [k \in 1..Len(out) |-> out[k].chunk]]

\* returns [panicked, capacity, chunks]
ChunkManager_get_chunk_with_predicate(self, chunk_aabb, predicate, build) ==
    LET volume == AABB_get_volume(chunk_aabb, build)
        out == ChunkManager_foreach_chunk_with_predicate(self, chunk_aabb, predicate)
    IN  IF volume.panicked \/ Vec_with_capacity(volume.value).panicked
        THEN [panicked |-> TRUE, capacity |-> None, chunks |-> <<>>]
        ELSE [panicked |-> FALSE, capacity |-> volume.value,
              chunks |-> [k \in 1..Len(out) |-> out[k].chunk]]

\* mutant: the chunks handed out mutably are pushed on the dirty list
ChunkManager_get_chunk_with_predicate_mut_marks(self, chunk_aabb, predicate, build) ==
    LET volume == AABB_get_volume(chunk_aabb, build)
        keys == KeysInOrder(DOMAIN self.section_map)
        visit(pos) ==
            LET intersection == AABB_get_intersection(chunk_aabb, Section_aabb(pos))
            IN  IF intersection # Nothing
                THEN LevelN_for_chunk_with_predicate_mut(SectionLevel, self.section_map[pos],
                                                         intersection, predicate)
                ELSE <<>>
        out == Flatten([k \in 1..Len(keys) |-> visit(keys[k])])
    IN  IF volume.panicked \/ Vec_with_capacity(volume.value).panicked
        THEN [self |-> self, panicked |-> TRUE, capacity |-> None, chunks |-> <<>>]
        ELSE [self |-> [self EXCEPT !.chunk_modified =
                          [i \in 0..(VecLen(@) + Len(out) - 1) |->
                              IF i < VecLen(@) THEN @[i] ELSE out[i - VecLen(@) + 1].id]],
              panicked |-> FALSE,
              capacity |-> volume.value,
              chunks |-> [k \in 1..Len(out) |-> out[k].chunk]]

\* returns [self, panicked, capacity, chunks]: the manager after the call,
\* whether the call panicked, the capacity asked for the Vec and the Vec returned
ChunkManager_get_chunk_with_predicate_mut(self, chunk_aabb, predicate, build) ==
    LET volume == AABB_get_volume(chunk_aabb, build)
        keys == KeysInOrder(DOMAIN self.section_map)
        visit(pos) ==
            LET intersection == AABB_get_intersection(chunk_aabb, Section_aabb(pos))
            IN  IF intersection # Nothing
                THEN LevelN_for_chunk_with_predicate_mut(SectionLevel, self.section_map[pos],
                                                         intersection, predicate)
                ELSE <<>>
        out == Flatten([k \in 1..Len(keys) |-> visit(keys[k])])
    IN  IF volume.panicked \/ Vec_with_capacity(volume.value).panicked
        THEN [self |-> self, panicked |-> TRUE, capacity |-> None, chunks |-> <<>>]
        ELSE [self |-> self, panicked |-> FALSE, capacity |-> volume.value,
              chunks |-> [k \in 1..Len(out) |-> out[k].chunk]]

\* the evaluations foreach_chunk_with_predicate (mutable FALSE) and
\* get_chunk_with_predicate_mut (mutable TRUE) make in the sections they visit
ChunkManager_predicate_evaluations(self, chunk_aabb, predicate, mutable) ==
    LET keys == KeysInOrder(DOMAIN self.section_map)
        visit(pos) ==
            LET intersection == AABB_get_intersection(chunk_aabb, Section_aabb(pos))
            IN  IF intersection # Nothing
                THEN LevelN_predicate_evaluations(SectionLevel, self.section_map[pos],
                                                  intersection, predicate, mutable)
                ELSE <<>>
    IN  Flatten([k \in 1..Len(keys) |-> visit(keys[k])])

\* Vec::sort_by on the raw ids: insertion of the last element into the sorted rest
RECURSIVE VecSort(_)
VecSort(v) ==
    IF VecLen(v) <= 1 THEN v
    ELSE LET rest == VecSort(VecPop(v))
             x == VecLast(v)
             k == Cardinality({i \in DOMAIN rest : rest[i] <= x})
         IN  [i \in 0..VecLen(rest) |->
                 IF i < k THEN rest[i] ELSE IF i = k THEN x ELSE rest[i - 1]]

\* Vec::dedup: of each run of equal consecutive elements the first one stays
VecDedup(v) ==
    LET kept == {i \in DOMAIN v : i = 0 \/ v[i] # v[i - 1]}
        nth(j) == CHOOSE i \in kept : Cardinality({k \in kept : k < i}) = j
    IN  [j \in 0..(Cardinality(kept) - 1) |-> v[nth(j)]]

\* mutant: the list is not sorted before dedup
ChunkManager_on_process_modified_chunks_unsorted(self) ==
    LET list == VecDedup(self.chunk_modified)
    IN  [self |-> [self EXCEPT !.chunk_modified = VecNew], calls |-> <<list>>]

\* returns [self, calls]: the manager after the call and the arguments of each
\* call of func
ChunkManager_on_process_modified_chunks(self) ==
    LET list == VecDedup(VecSort(self.chunk_modified))
    IN  [self |-> [self EXCEPT !.chunk_modified = VecNew], calls |-> <<list>>]

(***************************************************************************)
(* The ChunkManager under test and its callers                             *)
(***************************************************************************)
MaxInserts == 2
MaxMarks == 1
MaxQueries == 1

\* positions in one Level1 node, in another Level2 node, in the section below
\* the origin, and far from the origin
TestChunkPositions ==
    { IVec3(0, 0, 0), IVec3(1, 0, 0), IVec3(8, 64, 0), IVec3(0 - 1, 0, 0),
      IVec3(16777216, 0, 0), IVec3(33554432, 0, 0) }

\* the boxes of the range queries: chunk-x in [0,2), a box around every position
\* near the origin, and the unit boxes at the far position and at its mirror image
TestBoxes ==
    { AABB_new(IVec3(0, 0, 0), IVec3(2, 1, 1)),
      AABB_new(IVec3(0 - 1, 0, 0), IVec3(9, 65, 1)),
      AABB_new(IVec3(16777216, 0, 0), IVec3(16777217, 1, 1)),
      AABB_new(IVec3(0 - 16777216, 0, 0), IVec3(0 - 16777215, 1, 1)) }

\* the boxes of get_chunks_in and foreach_chunk_in: the boxes above and a box
\* that holds the whole section at the origin and one whole Level1 node of the
\* section below it
RangeBoxes ==
    TestBoxes \cup { AABB_new(IVec3(0 - 8, 0, 0), IVec3(512, 512, 512)) }

\* the boxes of the callers of the traversal: the boxes above and the box of
\* the Level1 node at the origin
TraversalBoxes ==
    TestBoxes \cup { AABB_new(IVec3(0, 0, 0), IVec3(8, 8, 8)) }

\* boxes by volume: 2 chunks, 1291^3 chunks (above 2^31 - 1, negative in 32
\* bits) and 2048^3 = 2^33 chunks (0 in 32 bits)
VolumeBoxes ==
    { AABB_new(IVec3(0, 0, 0), IVec3(2, 1, 1)),
      AABB_new(IVec3(0, 0, 0), IVec3(1291, 1291, 1291)),
      AABB_new(IVec3(0, 0, 0), IVec3(2048, 2048, 2048)) }

\* the predicates of the callers
TestPredicates == { [kind |-> "always"], [kind |-> "never"] }

\* the predicates of the callers of the traversal: the two above and a
\* predicate that is true on the boxes that reach into a region
TraversalPredicates ==
    TestPredicates
        \cup { [kind |-> "region", region |-> AABB_new(IVec3(1, 0, 0), IVec3(9, 65, 1))] }

\* a chunk as the manager sees it: its position and its voxel storage, which
\* the manager never opens; content names the storage
StoredChunk(position, content) == [position |-> position, handle |-> content]

NoManagerCall ==
    [op |-> "new", chunk |-> Nothing, id |-> None, readback |-> Nothing,
     before |-> VecNew, marked |-> {}, calls |-> <<>>,
     pos |-> Nothing, box |-> Nothing, out |-> <<>>, inserted |-> {},
     predicate |-> Nothing, capacity |-> None, panicked |-> FALSE,
     evaluations |-> <<>>]

ManagerIdle ==
    /\ manager = ChunkManager_new
    /\ mgr_marked = {}
    /\ mgr_count = [inserts |-> 0, marks |-> 0, queries |-> 0]
    /\ mgr_last = NoManagerCall
    /\ mgr_hist = [positions |-> {}, inserted_ids |-> {}]

(***************************************************************************)
(* The chunk under test and its callers                                    *)
(***************************************************************************)
Coords == 0..(CHUNK_SIZE - 1)

\* the in-range position with the given linear coordinate
BlockPosOfLinear(lc) ==
    BlockPos(lc % CHUNK_SIZE, (lc \div CHUNK_SIZE) % CHUNK_SIZE,
             lc \div (CHUNK_SIZE * CHUNK_SIZE))

\* where the filling caller writes its i-th new state: the first voxel, then the
\* last voxel and downwards from it, so that both ends of the buffers and both
\* halves of the packed bytes are written
FillPos(i) == BlockPosOfLinear((ChunkVolume - i) % ChunkVolume)

\* the voxel the other callers overwrite, and what they write to it
TestPositions == {FillPos(0)}
TestStates == {AIR, 2}

NoCall == [op |-> "new", promotions |-> 0, before |-> "ChunkEmpty", readback |-> TRUE]

ChunkInit ==
    /\ SparseSetIdle
    /\ ManagerIdle
    /\ TrackerIdle
    /\ chunk = Chunk_new(BlockPos(0, 0, 0))
    /\ shadow = [lc \in 0..(ChunkVolume - 1) |-> AIR]
    /\ nfresh = 0
    /\ written = {}
    /\ extra = 0
    /\ last = NoCall

DoSetBlock(pos, state) ==
    LET r == Chunk_set_block(chunk, pos, state)
    IN  /\ assert_pos(pos)
        /\ chunk' = r.self
        /\ shadow' = [shadow EXCEPT ![linear_coord(pos)] = state]
        /\ written' = written \cup ({state} \ {AIR})
        /\ last' = [op |-> "set_block", promotions |-> r.promotions,
                    before |-> chunk.handle.tag,
                    readback |-> (Chunk_get_block(r.self, pos) = state)]

\* a caller writes a value to one of the test positions
SetBlock ==
    \E pos \in TestPositions, state \in TestStates :
        /\ extra < MaxExtra
        /\ DoSetBlock(pos, state)
        /\ extra' = extra + 1
        /\ UNCHANGED <<nfresh, sparseSetVars, managerVars, trackerVars>>

\* the filling caller writes its next new state
FillBlock ==
    /\ nfresh < MaxFresh
    /\ DoSetBlock(FillPos(nfresh), nfresh + 1)
    /\ nfresh' = nfresh + 1
    /\ UNCHANGED <<extra, sparseSetVars, managerVars, trackerVars>>

Promote ==
    /\ extra < MaxExtra
    /\ extra' = extra + 1
    /\ chunk' = Chunk_promote(chunk)
    /\ last' = [op |-> "promote", promotions |-> 1, before |-> chunk.handle.tag,
                readback |-> TRUE]
    /\ UNCHANGED <<shadow, nfresh, written, sparseSetVars, managerVars, trackerVars>>

ChunkNext == SetBlock \/ FillBlock \/ Promote

ChunkSpec == ChunkInit /\ [][ChunkNext]_vars

\* the callers of set_block alone: promote() is called by set_block only
ChunkWriteNext == SetBlock \/ FillBlock

ChunkWriteSpec == ChunkInit /\ [][ChunkWriteNext]_vars

\* positions with a coordinate outside 0..CHUNK_SIZE-1
OutsidePositions ==
    { BlockPos(CHUNK_SIZE, 0, 0), BlockPos(0, 0, CHUNK_SIZE),
      BlockPos(0 - 1, 1, 0), BlockPos(0 - 1, 0, 0) }

\* a caller reads a position outside the chunk
GetBlockOutside ==
    \E pos \in OutsidePositions :
        LET r == Chunk_get_block_call(chunk, pos)
        IN  /\ extra < MaxExtra
            /\ extra' = extra + 1
            /\ last' = [op |-> "get_block_outside", promotions |-> 0,
                        before |-> chunk.handle.tag, readback |-> TRUE,
                        panicked |-> r.panicked, value |-> r.value, voxels_changed |-> FALSE]
            /\ UNCHANGED <<chunk, shadow, nfresh, written, sparseSetVars, managerVars, trackerVars>>

\* a caller writes to a position outside the chunk
SetBlockOutside ==
    \E pos \in OutsidePositions, state \in TestStates :
        LET r == Chunk_set_block_call(chunk, pos, state)
        IN  /\ extra < MaxExtra
            /\ extra' = extra + 1
            /\ chunk' = r.self
            /\ written' = IF r.panicked THEN written ELSE written \cup ({state} \ {AIR})
            /\ last' = [op |-> "set_block_outside", promotions |-> r.promotions,
                        before |-> chunk.handle.tag, readback |-> TRUE,
                        panicked |-> r.panicked, value |-> None,
                        voxels_changed |->
                            \E lc \in 0..(ChunkVolume - 1) :
                                Chunk_get_block(r.self, BlockPosOfLinear(lc))
                                    # Chunk_get_block(chunk, BlockPosOfLinear(lc))]
            /\ UNCHANGED <<shadow, nfresh, sparseSetVars, managerVars, trackerVars>>

\* the filling caller, then one caller that leaves the chunk's cube
ChunkRangeNext == (extra = 0 /\ FillBlock) \/ GetBlockOutside \/ SetBlockOutside

ChunkRangeSpec == ChunkInit /\ [][ChunkRangeNext]_vars

(***************************************************************************)
(* Properties of the chunk                                                 *)
(***************************************************************************)
\* what get_block returns at every in-range position, by linear coordinate
ReadAll(c) == [lc \in 0..(ChunkVolume - 1) |-> Chunk_get_block(c, BlockPosOfLinear(lc))]

\* the position of a format on the path Empty -> 4-bit -> 8-bit -> Native
FormatRank(tag) ==
    CASE tag = "ChunkEmpty" -> 0
      [] tag = "Chunk4bits" -> 1
      [] tag = "Chunk8bits" -> 2
      [] tag = "ChunkNative" -> 3

\* the distinct non-air states the voxels hold (the last state written to each)
HeldStates == {shadow[lc] : lc \in DOMAIN shadow} \ {AIR}

\* C1: after any sequence of set_block calls (and promotions) on a chunk made by
\* Chunk::new, get_block(p) is, for every in-range p, the state of the most
\* recent set_block to p, and air where nothing was written.
C1_ReadsLastWrite == ReadAll(chunk) = shadow

\* the chunk reached the Native format through set_block alone, holds the 256
\* and more states written to it, and has had a written voxel overwritten
C1_Witness ==
    /\ chunk.handle.tag = "ChunkNative"
    /\ last.op = "set_block"
    /\ nfresh >= Chunk8BitsPaletteLen + 1
    /\ extra >= 1
    /\ shadow[linear_coord(FillPos(0))] = AIR
    /\ Cardinality(HeldStates) >= Chunk8BitsPaletteLen

\* C2: promote() changes no readable voxel, whatever the format it starts from.
C2_PromoteLossless ==
    [][(last'.op = "promote" /\ extra' = extra + 1) => ReadAll(chunk') = ReadAll(chunk)]_vars

\* promote() has just turned a 4-bit chunk that holds 15 states into an 8-bit one
C2_Witness ==
    /\ last.op = "promote"
    /\ last.before = "Chunk4bits"
    /\ chunk.handle.tag = "Chunk8bits"
    /\ Cardinality(HeldStates) = Chunk4BitsPaletteLen

\* C3: a chunk whose voxels hold more than 15 distinct non-air states is not in
\* the 4-bit format, and one that holds more than 255 is not in the 8-bit format.
C3_FormatWideEnough ==
    /\ Cardinality(HeldStates) > Chunk4BitsPaletteLen => chunk.handle.tag # "Chunk4bits"
    /\ Cardinality(HeldStates) > Chunk8BitsPaletteLen => chunk.handle.tag # "Chunk8bits"

\* the 256th distinct state has just been written and the chunk left the 8-bit format
C3_Witness ==
    /\ last.op = "set_block"
    /\ last.before = "Chunk8bits"
    /\ chunk.handle.tag = "ChunkNative"
    /\ Cardinality(HeldStates) = Chunk8BitsPaletteLen + 1

\* C4: the format only moves forward: every promote() advances it by exactly one
\* step, promote() on a Native chunk changes nothing, and no call makes it narrower.
C4_FormatForward ==
    [][/\ FormatRank(chunk'.handle.tag) >= FormatRank(chunk.handle.tag)
       /\ (last'.op = "promote" /\ extra' = extra + 1) =>
            IF chunk.handle.tag = "ChunkNative"
            THEN chunk' = chunk
            ELSE FormatRank(chunk'.handle.tag) = FormatRank(chunk.handle.tag) + 1]_vars

\* promote() has been called on a chunk that was already Native
C4_Witness ==
    /\ last.op = "promote"
    /\ last.before = "ChunkNative"
    /\ chunk.handle.tag = "ChunkNative"

\* C5: set_block returns after at most three calls of promote(), and get_block(pos)
\* then returns the written state.
C5_SetBlockSucceeds ==
    last.op = "set_block" => (last.promotions <= 3 /\ last.readback)

\* a set_block of a 16th state on a full 4-bit palette has promoted once and returned
C5_Witness ==
    /\ last.op = "set_block"
    /\ last.before = "Chunk4bits"
    /\ last.promotions = 1
    /\ last.readback
    /\ nfresh = Chunk4BitsPaletteLen + 1

(***************************************************************************)
(* The specification of the SparseSet                                      *)
(***************************************************************************)
ChunkIdle ==
    /\ chunk = Chunk_new(BlockPos(0, 0, 0))
    /\ shadow = <<>>
    /\ nfresh = 0
    /\ written = {}
    /\ extra = 0
    /\ last = NoCall

SparseSetInit == ChunkIdle /\ SparseSetIdle /\ ManagerIdle /\ TrackerIdle

SparseInsert ==
    \E id \in SparseIds, value \in SparseValues :
        LET r == SparseSet_insert(sparse_set, id, value)
        IN  /\ sparse_set' = r.self
            /\ ss_ref' = [ss_ref EXCEPT ![id] = value]
            /\ ss_last' = [op |-> "insert", id |-> id, ret |-> r.ret, ref_ret |-> ss_ref[id],
                           changed |-> (r.self # sparse_set)]
            /\ UNCHANGED <<chunkVars, managerVars, trackerVars>>

SparseRemove ==
    \E id \in SparseIds :
        LET r == SparseSet_remove(sparse_set, id)
        IN  /\ sparse_set' = r.self
            /\ ss_ref' = [ss_ref EXCEPT ![id] = None]
            /\ ss_last' = [op |-> "remove", id |-> id, ret |-> r.ret, ref_ret |-> ss_ref[id],
                           changed |-> (r.self # sparse_set)]
            /\ UNCHANGED <<chunkVars, managerVars, trackerVars>>

SparseGet ==
    \E id \in SparseIds :
        /\ ss_last' = [op |-> "get", id |-> id, ret |-> SparseSet_get(sparse_set, id),
                       ref_ret |-> ss_ref[id], changed |-> FALSE]
        /\ UNCHANGED <<sparse_set, ss_ref, chunkVars, managerVars, trackerVars>>

SparseSetNext == SparseInsert \/ SparseRemove \/ SparseGet

SparseSetSpec == SparseSetInit /\ [][SparseSetNext]_vars

\* C9: the sparse table and the dense array agree: every sparse entry that is
\* not EMPTY indexes a dense slot whose sparse_pos is that id, and the sparse
\* entry of every dense slot's sparse_pos is the index of the slot.
C9_SparseDenseConsistent ==
    /\ \A id \in DOMAIN sparse_set.sparse :
          sparse_set.sparse[id] # EMPTY =>
              /\ sparse_set.sparse[id] \in DOMAIN sparse_set.dense
              /\ sparse_set.dense[sparse_set.sparse[id]].sparse_pos = id
    /\ SparseSet_assert_sparse_valid(sparse_set)

\* a remove has just moved the last dense slot into a hole in the middle
C9_Witness ==
    /\ ss_last.op = "remove"
    /\ ss_last.ret # None
    /\ VecLen(sparse_set.dense) >= 2
    /\ \E i \in DOMAIN sparse_set.dense :
          /\ i < VecLen(sparse_set.dense) - 1
          /\ sparse_set.dense[i].sparse_pos > VecLast(sparse_set.dense).sparse_pos
    /\ \E id \in DOMAIN sparse_set.sparse : sparse_set.sparse[id] = EMPTY

\* C10: the SparseSet behaves like the reference map: every insert, get and
\* remove returns what the map returns, get(id) is the map's value for every id
\* (None for an absent id), a remove of an absent id changes nothing, and len()
\* is the number of present ids.
C10_RefinesMap ==
    /\ ss_last.ret = ss_last.ref_ret
    /\ (ss_last.op = "remove" /\ ss_last.ref_ret = None) => ~ss_last.changed
    /\ \A id \in 0..(MaxId + 1) :
          SparseSet_get(sparse_set, id) = (IF id \in SparseIds THEN ss_ref[id] ELSE None)
    /\ SparseSet_len(sparse_set) = Cardinality({id \in SparseIds : ss_ref[id] # None})

\* a remove from the middle of the dense array has returned the stored value
\* and left two other ids present
C10_Witness ==
    /\ ss_last.op = "remove"
    /\ ss_last.ret # None
    /\ ss_last.ret = ss_last.ref_ret
    /\ SparseSet_len(sparse_set) >= 2
    /\ SparseSet_sparse_get_dense_pos(sparse_set, ss_last.id) = EMPTY
    /\ \E a, b \in SparseIds : a # b /\ ss_ref[a] # None /\ ss_ref[b] # None /\ ss_ref[a] # ss_ref[b]

(***************************************************************************)
(* The specification of the ChunkManager                                   *)
(***************************************************************************)
ManagerInit == ChunkIdle /\ SparseSetIdle /\ ManagerIdle /\ TrackerIdle

\* insert_chunk(c) of a fresh chunk at one of the positions, then get_chunk
InsertChunk ==
    \E pos \in TestChunkPositions :
        LET c == StoredChunk(pos, mgr_count.inserts + 1)
            r == ChunkManager_insert_chunk(manager, c)
        IN  /\ mgr_count.inserts < MaxInserts
            /\ manager' = r.self
            /\ mgr_marked' = mgr_marked \cup {r.id}
            /\ mgr_count' = [mgr_count EXCEPT !.inserts = @ + 1]
            /\ mgr_last' = [NoManagerCall EXCEPT !.op = "insert_chunk", !.chunk = c, !.id = r.id,
                                !.readback = ChunkManager_get_chunk(r.self, pos)]
            /\ mgr_hist' = [positions |-> mgr_hist.positions \cup {pos},
                            inserted_ids |-> mgr_hist.inserted_ids \cup {r.id}]
            /\ UNCHANGED <<chunkVars, sparseSetVars, trackerVars>>

\* make_dirty(id) with an Id the manager handed out
MakeDirty ==
    \E id \in 0..(manager.chunk_id_tracker.next - 1) :
        /\ mgr_count.marks < MaxMarks
        /\ manager' = ChunkManager_make_dirty(manager, id)
        /\ mgr_marked' = mgr_marked \cup {id}
        /\ mgr_count' = [mgr_count EXCEPT !.marks = @ + 1]
        /\ mgr_last' = [NoManagerCall EXCEPT !.op = "make_dirty", !.id = id]
        /\ UNCHANGED <<mgr_hist, chunkVars, sparseSetVars, trackerVars>>

\* on_process_modified_chunks(func)
Drain ==
    LET r == ChunkManager_on_process_modified_chunks(manager)
    IN  /\ manager' = r.self
        /\ mgr_marked' = {}
        /\ mgr_last' = [NoManagerCall EXCEPT !.op = "on_process_modified_chunks",
                            !.before = manager.chunk_modified, !.marked = mgr_marked,
                            !.calls = r.calls, !.inserted = mgr_hist.inserted_ids]
        /\ mgr_hist' = [mgr_hist EXCEPT !.inserted_ids = {}]
        /\ UNCHANGED <<mgr_count, chunkVars, sparseSetVars, trackerVars>>

\* get_chunk(pos) and get_chunk_mut(pos) at one of the positions
GetChunk ==
    \E pos \in TestChunkPositions, mutable \in BOOLEAN :
        LET r == IF mutable THEN ChunkManager_get_chunk_mut(manager, pos)
                 ELSE [self |-> manager, chunk |-> ChunkManager_get_chunk(manager, pos)]
        IN  /\ mgr_count.queries < MaxQueries
            /\ manager' = r.self
            /\ mgr_count' = [mgr_count EXCEPT !.queries = @ + 1]
            /\ mgr_last' = [NoManagerCall EXCEPT
                                !.op = IF mutable THEN "get_chunk_mut" ELSE "get_chunk",
                                !.pos = pos, !.readback = r.chunk]
            /\ UNCHANGED <<mgr_marked, mgr_hist, chunkVars, sparseSetVars, trackerVars>>

\* every leaf the manager holds
LoadedLeaves ==
    UNION {Node_for_all_chunks(SectionLevel, manager.section_map[region_pos]) :
              region_pos \in DOMAIN manager.section_map}

\* foreach_chunk_in(box, out_func) and get_chunks_in(box) with one of the boxes
ChunksIn ==
    \E box \in RangeBoxes, collect \in BOOLEAN : \E build \in BuildsFor(box) :
        LET r == ChunkManager_get_chunks_in(manager, box, build)
        IN  /\ mgr_count.queries < MaxQueries
            /\ UNCHANGED manager
            /\ mgr_count' = [mgr_count EXCEPT !.queries = @ + 1]
            /\ mgr_last' = IF collect
                           THEN [NoManagerCall EXCEPT !.op = "get_chunks_in", !.box = box,
                                    !.out = r.chunks, !.capacity = r.capacity,
                                    !.panicked = r.panicked]
                           ELSE [NoManagerCall EXCEPT !.op = "foreach_chunk_in", !.box = box,
                                    !.out = ChunkManager_foreach_chunk_in(manager, box)]
            /\ UNCHANGED <<mgr_marked, mgr_hist, chunkVars, sparseSetVars, trackerVars>>

\* foreach_chunk_with_predicate(box, predicate, out_func) and
\* get_chunk_with_predicate(box, predicate)
ChunksWithPredicate ==
    \E box \in TestBoxes, predicate \in TestPredicates, collect \in BOOLEAN : \E build \in BuildsFor(box) :
        LET r == ChunkManager_get_chunk_with_predicate(manager, box, predicate, build)
        IN  /\ mgr_count.queries < MaxQueries
            /\ UNCHANGED manager
            /\ mgr_count' = [mgr_count EXCEPT !.queries = @ + 1]
            /\ mgr_last' = IF collect
                           THEN [NoManagerCall EXCEPT !.op = "get_chunk_with_predicate",
                                    !.box = box, !.predicate = predicate,
                                    !.out = r.chunks, !.capacity = r.capacity,
                                    !.panicked = r.panicked]
                           ELSE [NoManagerCall EXCEPT !.op = "foreach_chunk_with_predicate",
                                    !.box = box, !.predicate = predicate,
                                    !.out = ChunkManager_foreach_chunk_with_predicate(manager, box, predicate)]
            /\ UNCHANGED <<mgr_marked, mgr_hist, chunkVars, sparseSetVars, trackerVars>>

\* get_chunk_with_predicate_mut(box, predicate)
ChunksWithPredicateMut ==
    \E box \in TestBoxes, predicate \in TestPredicates : \E build \in BuildsFor(box) :
        LET r == ChunkManager_get_chunk_with_predicate_mut(manager, box, predicate, build)
        IN  /\ mgr_count.queries < MaxQueries
            /\ manager' = r.self
            /\ mgr_count' = [mgr_count EXCEPT !.queries = @ + 1]
            /\ mgr_last' = [NoManagerCall EXCEPT !.op = "get_chunk_with_predicate_mut",
                                !.box = box, !.predicate = predicate,
                                !.out = r.chunks, !.capacity = r.capacity,
                                    !.panicked = r.panicked]
            /\ UNCHANGED <<mgr_marked, mgr_hist, chunkVars, sparseSetVars, trackerVars>>

ManagerNext == InsertChunk \/ MakeDirty \/ Drain

\* the manager with the callers that insert and mark, and then the callers
\* that query what was built
QueryNext ==
    \/ (mgr_count.queries = 0 /\ (InsertChunk \/ MakeDirty))
    \/ GetChunk
    \/ ChunksIn
    \/ ChunksWithPredicate
    \/ ChunksWithPredicateMut

QuerySpec == ManagerInit /\ [][QueryNext]_vars

\* foreach_chunk_with_predicate and get_chunk_with_predicate with one of the
\* boxes and one of the predicates of the traversal
TraversePredicate ==
    \E box \in TraversalBoxes, predicate \in TraversalPredicates, collect \in BOOLEAN : \E build \in BuildsFor(box) :
        LET r == ChunkManager_get_chunk_with_predicate(manager, box, predicate, build)
        IN  /\ mgr_count.queries < MaxQueries
            /\ UNCHANGED manager
            /\ mgr_count' = [mgr_count EXCEPT !.queries = @ + 1]
            /\ mgr_last' = IF collect
                           THEN [NoManagerCall EXCEPT !.op = "get_chunk_with_predicate",
                                    !.box = box, !.predicate = predicate,
                                    !.out = r.chunks, !.capacity = r.capacity,
                                    !.panicked = r.panicked,
                                    !.evaluations = ChunkManager_predicate_evaluations(manager, box, predicate, FALSE)]
                           ELSE [NoManagerCall EXCEPT !.op = "foreach_chunk_with_predicate",
                                    !.box = box, !.predicate = predicate,
                                    !.out = ChunkManager_foreach_chunk_with_predicate(manager, box, predicate),
                                    !.evaluations = ChunkManager_predicate_evaluations(manager, box, predicate, FALSE)]
            /\ UNCHANGED <<mgr_marked, mgr_hist, chunkVars, sparseSetVars, trackerVars>>

\* get_chunk_with_predicate_mut with one of the boxes and one of the
\* predicates of the traversal
TraversePredicateMut ==
    \E box \in TraversalBoxes, predicate \in TraversalPredicates : \E build \in BuildsFor(box) :
        LET r == ChunkManager_get_chunk_with_predicate_mut(manager, box, predicate, build)
        IN  /\ mgr_count.queries < MaxQueries
            /\ manager' = r.self
            /\ mgr_count' = [mgr_count EXCEPT !.queries = @ + 1]
            /\ mgr_last' = [NoManagerCall EXCEPT !.op = "get_chunk_with_predicate_mut",
                                !.box = box, !.predicate = predicate,
                                !.out = r.chunks, !.capacity = r.capacity,
                                !.panicked = r.panicked,
                                !.evaluations = ChunkManager_predicate_evaluations(manager, box, predicate, TRUE)]
            /\ UNCHANGED <<mgr_marked, mgr_hist, chunkVars, sparseSetVars, trackerVars>>

\* get_chunks_in(box) with a box of one of the volumes, in one of the builds
VolumeChunksIn ==
    \E box \in VolumeBoxes : \E build \in BuildsFor(box) :
        LET r == ChunkManager_get_chunks_in(manager, box, build)
        IN  /\ mgr_count.queries < MaxQueries
            /\ UNCHANGED manager
            /\ mgr_count' = [mgr_count EXCEPT !.queries = @ + 1]
            /\ mgr_last' = [NoManagerCall EXCEPT !.op = "get_chunks_in", !.box = box,
                                !.out = r.chunks, !.capacity = r.capacity,
                                !.panicked = r.panicked]
            /\ UNCHANGED <<mgr_marked, mgr_hist, chunkVars, sparseSetVars, trackerVars>>

\* get_chunk_with_predicate(box, predicate) with a box of one of the volumes
VolumeWithPredicate ==
    \E box \in VolumeBoxes, predicate \in TestPredicates : \E build \in BuildsFor(box) :
        LET r == ChunkManager_get_chunk_with_predicate(manager, box, predicate, build)
        IN  /\ mgr_count.queries < MaxQueries
            /\ UNCHANGED manager
            /\ mgr_count' = [mgr_count EXCEPT !.queries = @ + 1]
            /\ mgr_last' = [NoManagerCall EXCEPT !.op = "get_chunk_with_predicate",
                                !.box = box, !.predicate = predicate,
                                !.out = r.chunks, !.capacity = r.capacity,
                                !.panicked = r.panicked]
            /\ UNCHANGED <<mgr_marked, mgr_hist, chunkVars, sparseSetVars, trackerVars>>

\* get_chunk_with_predicate_mut(box, predicate) with a box of one of the volumes
VolumeWithPredicateMut ==
    \E box \in VolumeBoxes, predicate \in TestPredicates : \E build \in BuildsFor(box) :
        LET r == ChunkManager_get_chunk_with_predicate_mut(manager, box, predicate, build)
        IN  /\ mgr_count.queries < MaxQueries
            /\ manager' = r.self
            /\ mgr_count' = [mgr_count EXCEPT !.queries = @ + 1]
            /\ mgr_last' = [NoManagerCall EXCEPT !.op = "get_chunk_with_predicate_mut",
                                !.box = box, !.predicate = predicate,
                                !.out = r.chunks, !.capacity = r.capacity,
                                !.panicked = r.panicked]
            /\ UNCHANGED <<mgr_marked, mgr_hist, chunkVars, sparseSetVars, trackerVars>>

\* the manager with the callers that insert, and then the callers that collect
\* the chunks of a large box
VolumeNext ==
    \/ (mgr_count.queries = 0 /\ InsertChunk)
    \/ VolumeChunksIn
    \/ VolumeWithPredicate
    \/ VolumeWithPredicateMut

VolumeSpec == ManagerInit /\ [][VolumeNext]_vars

\* the manager with the callers that insert, and then the callers of the
\* predicate traversal
TraversalNext ==
    \/ (mgr_count.queries = 0 /\ InsertChunk)
    \/ TraversePredicate
    \/ TraversePredicateMut

TraversalSpec == ManagerInit /\ [][TraversalNext]_vars

ManagerSpec == ManagerInit /\ [][ManagerNext]_vars

\* C6: insert_chunk(c) followed by get_chunk(c.position()) returns a present
\* chunk whose position is c's and whose voxel storage is c's, whatever was
\* inserted before.
C6_InsertThenGet ==
    mgr_last.op = "insert_chunk" =>
        /\ mgr_last.readback # Nothing
        /\ mgr_last.readback.position = mgr_last.chunk.position
        /\ mgr_last.readback.handle = mgr_last.chunk.handle

\* an insert replaces the chunk of an earlier insert at the same position, in
\* the section below the origin, and get_chunk returns the new chunk
C6_Witness ==
    /\ mgr_last.op = "insert_chunk"
    /\ mgr_last.id >= 1
    /\ mgr_last.id = mgr_count.inserts - 1
    /\ mgr_last.chunk.position = IVec3(0 - 1, 0, 0)
    /\ mgr_last.readback = mgr_last.chunk
    /\ mgr_last.readback.handle = mgr_count.inserts
    /\ Cardinality(LoadedLeaves) < mgr_count.inserts

\* the chunk position pos lies inside the box
InBox(pos, box) ==
    /\ box.min.x <= pos.x /\ pos.x < box.max.x
    /\ box.min.y <= pos.y /\ pos.y < box.max.y
    /\ box.min.z <= pos.z /\ pos.z < box.max.z

\* C7: with a predicate that is true for every box, the predicate query returns
\* no chunk when no loaded chunk position lies inside the box, and every loaded
\* chunk exactly once when the box contains every loaded chunk position.
C7_AlwaysTrueQuery ==
    \A box \in TestBoxes :
        LET out == ChunkManager_foreach_chunk_with_predicate(manager, box, [kind |-> "always"])
        IN  /\ (\A leaf \in LoadedLeaves : ~InBox(leaf.chunk.position, box)) => out = <<>>
            /\ (\A leaf \in LoadedLeaves : InBox(leaf.chunk.position, box)) =>
                   /\ Len(out) = Cardinality(LoadedLeaves)
                   /\ {out[k] : k \in 1..Len(out)} = LoadedLeaves

\* C8: a drain calls the callback once, with a list sorted ascending by raw id
\* and without duplicates that holds exactly the Ids marked since the previous
\* drain, and leaves the dirty list empty.
C8_DrainSortedDedup ==
    mgr_last.op = "on_process_modified_chunks" =>
        /\ Len(mgr_last.calls) = 1
        /\ \A i, j \in DOMAIN mgr_last.calls[1] :
               i < j => mgr_last.calls[1][i] < mgr_last.calls[1][j]
        /\ {mgr_last.calls[1][i] : i \in DOMAIN mgr_last.calls[1]} = mgr_last.marked
        /\ VecLen(manager.chunk_modified) = 0

\* a drain of a list that held an Id twice, out of order, passed two Ids
C8_Witness ==
    /\ mgr_last.op = "on_process_modified_chunks"
    /\ Len(mgr_last.calls) = 1
    /\ VecLen(mgr_last.calls[1]) = 2
    /\ VecLen(mgr_last.before) > 2
    /\ \E i \in DOMAIN mgr_last.before :
          i > 0 /\ mgr_last.before[i] < mgr_last.before[i - 1]
    /\ VecLen(manager.chunk_modified) = 0

(***************************************************************************)
(* The specification of the IdTracker                                      *)
(***************************************************************************)
TrackerInit == ChunkIdle /\ SparseSetIdle /\ ManagerIdle /\ TrackerIdle

\* the identifiers handed out and not given back
AllocatedIds(self) ==
    (0..(self.next - 1)) \ {self.free[i] : i \in DOMAIN self.free}

TrackerAlloc ==
    LET r == IdTracker_alloc(tracker)
    IN  /\ (VecLen(tracker.free) > 0 \/ tracker.next < MaxIssued)
        /\ tracker' = r.self
        /\ tr_last' = [op |-> "alloc", id |-> r.id, prev_op |-> tr_last.op,
                       prev_id |-> tr_last.id, free_before |-> tracker.free,
                       next_before |-> tracker.next]
        /\ UNCHANGED <<chunkVars, sparseSetVars, managerVars>>

\* free(id) of an identifier that is allocated and not yet freed
TrackerFree ==
    \E id \in AllocatedIds(tracker) :
        /\ tracker' = IdTracker_free(tracker, id)
        /\ tr_last' = [op |-> "free", id |-> id, prev_op |-> tr_last.op,
                       prev_id |-> tr_last.id, free_before |-> tracker.free,
                       next_before |-> tracker.next]
        /\ UNCHANGED <<chunkVars, sparseSetVars, managerVars>>

TrackerNext == TrackerAlloc \/ TrackerFree

TrackerSpec == TrackerInit /\ [][TrackerNext]_vars

\* the smallest identifier that was unused when the last call began
SmallestUnusedBefore ==
    LET freed == {tr_last.free_before[i] : i \in DOMAIN tr_last.free_before}
    IN  IF freed = {} THEN tr_last.next_before ELSE Min(freed)

\* C11: every alloc() returns the smallest identifier that is unused when it
\* is called (never issued, or issued and since freed).
C11_AllocSmallest ==
    tr_last.op = "alloc" => tr_last.id = SmallestUnusedBefore

C13_OutsideAsserted ==
    (last.op \in {"get_block_outside", "set_block_outside"} /\ last.before # "ChunkEmpty") =>
        (last.panicked /\ ~last.voxels_changed)

\* C14: is_empty() is true for the chunk fresh from Chunk::new and false after
\* every promote() and set_block call, a set_block that writes air included.
C14_IsEmptyUntilFirstCall ==
    /\ Chunk_is_empty(chunk) <=> last.op = "new"
    /\ Chunk_is_empty(chunk) <=> FormatRank(chunk.handle.tag) = 0

\* a set_block of air on the fresh chunk: every voxel reads air, is_empty() is false
C14_Witness ==
    /\ last.op = "set_block"
    /\ last.before = "ChunkEmpty"
    /\ nfresh = 0
    /\ ~Chunk_is_empty(chunk)
    /\ \A lc \in 0..(ChunkVolume - 1) : Chunk_get_block(chunk, BlockPosOfLinear(lc)) = AIR

\* C15: get_chunk(P) and get_chunk_mut(P) at a position P that was never given
\* to insert_chunk return None and leave the sections and nodes as they were.
C15_AbsentIsNone ==
    [][(mgr_count'.queries > mgr_count.queries /\ mgr_last'.op \in {"get_chunk", "get_chunk_mut"} /\ mgr_last'.pos \notin mgr_hist.positions) =>
          (mgr_last'.readback = Nothing /\ manager' = manager)]_vars

\* C16: the Ids stored with the loaded chunks are pairwise distinct.
C16_IdsDistinct ==
    \A l1, l2 \in LoadedLeaves : l1 # l2 => l1.id # l2.id

\* two chunks are loaded, the second one just inserted
C16_Witness ==
    /\ mgr_last.op = "insert_chunk"
    /\ Cardinality(LoadedLeaves) = 2
    /\ \E l \in LoadedLeaves : l.id = mgr_last.id /\ l.chunk = mgr_last.chunk

\* C17: the Id of a chunk that a later insert_chunk at the same position
\* replaced is given back to the IdTracker: the identifiers handed out and not
\* given back are exactly the Ids of the loaded chunks.
C17_ReplacedIdFreed ==
    AllocatedIds(manager.chunk_id_tracker) = {l.id : l \in LoadedLeaves}

\* C18: the Id insert_chunk stored with a chunk is in the list the next
\* on_process_modified_chunks passes to its callback.
C18_InsertMarksDirty ==
    /\ mgr_hist.inserted_ids \subseteq {manager.chunk_modified[i] : i \in DOMAIN manager.chunk_modified}
    /\ mgr_last.op = "on_process_modified_chunks" =>
           /\ Len(mgr_last.calls) = 1
           /\ mgr_last.inserted \subseteq {mgr_last.calls[1][i] : i \in DOMAIN mgr_last.calls[1]}

\* a drain after two inserts and no make_dirty passed both Ids
C18_Witness ==
    /\ mgr_last.op = "on_process_modified_chunks"
    /\ mgr_count.marks = 0
    /\ mgr_last.inserted = {0, 1}
    /\ Len(mgr_last.calls) = 1
    /\ {mgr_last.calls[1][i] : i \in DOMAIN mgr_last.calls[1]} = {0, 1}

\* the calls that read the manager
QueryOps ==
    { "get_chunk", "get_chunk_mut", "get_chunks_in", "foreach_chunk_in",
      "foreach_chunk_with_predicate", "get_chunk_with_predicate",
      "get_chunk_with_predicate_mut" }

\* C19: the seven query operations leave the dirty list as it was; the list
\* grows only in insert_chunk and make_dirty.
C19_QueriesKeepDirtyList ==
    [][/\ (mgr_count'.queries > mgr_count.queries) =>
              (mgr_last'.op \in QueryOps /\ manager'.chunk_modified = manager.chunk_modified)
       /\ (VecLen(manager'.chunk_modified) > VecLen(manager.chunk_modified)) =>
              mgr_last'.op \in {"insert_chunk", "make_dirty"}]_vars

\* a mutable predicate query handed out a chunk while the dirty list held Ids
C19_Witness ==
    /\ mgr_last.op = "get_chunk_with_predicate_mut"
    /\ Len(mgr_last.out) > 0
    /\ VecLen(manager.chunk_modified) > 0
    /\ mgr_count.marks > 0

\* C20: get_chunks_in(box) and foreach_chunk_in(box) return the loaded chunks
\* whose position lies in [box.min, box.max), each one once and no other chunk.
C20_RangeQueryExact ==
    LET expected == {l \in LoadedLeaves : InBox(l.chunk.position, mgr_last.box)}
        returned == {mgr_last.out[k] : k \in 1..Len(mgr_last.out)}
    IN  /\ mgr_last.op = "foreach_chunk_in" =>
               (Len(mgr_last.out) = Cardinality(expected) /\ returned = expected)
        /\ mgr_last.op = "get_chunks_in" =>
               (Len(mgr_last.out) = Cardinality(expected)
                /\ returned = {l.chunk : l \in expected})

\* the elements of a sequence
SeqRange(seq) == {seq[k] : k \in 1..Len(seq)}

\* C21: get_chunk_with_predicate_mut(box, pred) returns the chunks that
\* get_chunk_with_predicate(box, pred) returns, each one once, and with a
\* predicate that is always true exactly the loaded chunks positioned in the box.
C21_MutQuerySameAsShared ==
    mgr_last.op = "get_chunk_with_predicate_mut" =>
        LET shared == ChunkManager_get_chunk_with_predicate(manager, mgr_last.box,
                                                            mgr_last.predicate, "release")
            inside == {l.chunk : l \in {l \in LoadedLeaves : InBox(l.chunk.position, mgr_last.box)}}
        IN  /\ SeqRange(mgr_last.out) = SeqRange(shared.chunks)
            /\ Len(mgr_last.out) = Cardinality(SeqRange(mgr_last.out))
            /\ mgr_last.predicate.kind = "always" => SeqRange(mgr_last.out) = inside

\* the box [position, position + 1) of a chunk
UnitBox(position) == AABB_new(position, IVec3_add(position, IVec3_ONE))

\* C22: every chunk that foreach_chunk_with_predicate or
\* get_chunk_with_predicate emits has a unit box that intersects the query box
\* and on which the predicate is true, and no chunk is emitted twice.
C22_EmittedMatch ==
    LET chunks == IF mgr_last.op = "foreach_chunk_with_predicate"
                  THEN [k \in 1..Len(mgr_last.out) |-> mgr_last.out[k].chunk]
                  ELSE mgr_last.out
    IN  mgr_last.op \in {"foreach_chunk_with_predicate", "get_chunk_with_predicate"} =>
            /\ \A c \in SeqRange(chunks) :
                   /\ AABB_intersects(UnitBox(c.position), mgr_last.box)
                   /\ Predicate_call(mgr_last.predicate, UnitBox(c.position))
            /\ Len(chunks) = Cardinality(SeqRange(chunks))

\* the documented range of a ChunkPos coordinate: -2^27 to 2^27 - 1
ValidChunkCoordinate(v) == 0 - 134217728 <= v /\ v <= 134217727

\* C23: every chunk position of the documented range has its own slot: the
\* chunks inserted at different positions are all loaded, and get_chunk(P)
\* never returns a chunk whose position differs from P.
C23_OwnSlotPerPosition ==
    /\ \A pos \in TestChunkPositions :
           ValidChunkCoordinate(pos.x) /\ ValidChunkCoordinate(pos.y) /\ ValidChunkCoordinate(pos.z)
    /\ {l.chunk.position : l \in LoadedLeaves} = mgr_hist.positions
    /\ \A pos \in TestChunkPositions :
           LET found == ChunkManager_get_chunk(manager, pos)
           IN  found # Nothing => found.position = pos

\* min < max on each axis
ValidBox(box) ==
    box.min.x < box.max.x /\ box.min.y < box.max.y /\ box.min.z < box.max.z

\* C24: get_chunks_in, get_chunk_with_predicate and
\* get_chunk_with_predicate_mut complete normally for every box with min < max
\* on each axis, whatever its volume.
C24_RangeQueriesTotal ==
    (/\ mgr_last.op \in {"get_chunks_in", "get_chunk_with_predicate", "get_chunk_with_predicate_mut"}
     /\ ValidBox(mgr_last.box)) => ~mgr_last.panicked

TraversalOps ==
    {"foreach_chunk_with_predicate", "get_chunk_with_predicate", "get_chunk_with_predicate_mut"}

\* the chunks handed to out_func or returned by the last query
EmittedChunks ==
    IF mgr_last.op = "foreach_chunk_with_predicate"
    THEN [k \in 1..Len(mgr_last.out) |-> mgr_last.out[k].chunk]
    ELSE mgr_last.out

\* the caller's side of the fast path: the predicate is true on every box the
\* query box totally contains
PredicateHonoursContainment(predicate, box) ==
    \/ predicate.kind = "always"
    \/ predicate.kind = "region" /\ AABB_totally_contains(predicate.region, box)

ActualBox(evaluation) ==
    LET child_side == SIDE_CHUNK_COUNT(evaluation.node_level - 1)
    IN  get_aabb(IVec3_add(evaluation.node_pos, IVec3_mul(evaluation.local_pos, child_side)),
                 evaluation.side_child_count * child_side)

\* C26: every box the predicate traversal tests against the query box or
\* passes to the predicate, at every level and in both variants, is the box in
\* chunk space of what it stands for: its minimum is global_pos + local_pos *
\* child_side and its side is child_side times the number of children a side.
C26_BoxesActual ==
    mgr_last.op \in TraversalOps
    => \A i \in DOMAIN mgr_last.evaluations :
           mgr_last.evaluations[i].aabb = ActualBox(mgr_last.evaluations[i])

\* C27: the traversal skips a subtree exactly when the box tested for it
\* neither intersects the query box nor satisfies the predicate; a box that
\* intersects or satisfies is descended.
C27_SkipIffNeither ==
    mgr_last.op \in TraversalOps
    => \A i \in DOMAIN mgr_last.evaluations :
           LET evaluation == mgr_last.evaluations[i]
           IN  evaluation.skipped
               <=> (/\ ~AABB_intersects(evaluation.query, evaluation.aabb)
                    /\ ~Predicate_call(mgr_last.predicate, evaluation.aabb))

\* C27 (amended): the iterator skips the children of an octant box as soon as
\* the box does not intersect the query box or does not satisfy the predicate,
\* and descends only when both hold; only the test a node makes on its own
\* box skips when both fail.
C27_SkipUnlessBoth ==
    mgr_last.op \in TraversalOps
    => \A i \in DOMAIN mgr_last.evaluations :
           LET evaluation == mgr_last.evaluations[i]
               intersects == AABB_intersects(evaluation.query, evaluation.aabb)
               satisfies == Predicate_call(mgr_last.predicate, evaluation.aabb)
           IN  /\ evaluation.kind = "octants"
                      => (evaluation.skipped <=> (~intersects \/ ~satisfies))
               /\ evaluation.kind = "node"
                      => (evaluation.skipped <=> (~intersects /\ ~satisfies))

\* a query in which one octant box is skipped although it intersects the query
\* box, and another although it satisfies the predicate
C27_Witness ==
    /\ mgr_last.op \in TraversalOps
    /\ \E i, j \in DOMAIN mgr_last.evaluations :
           LET first == mgr_last.evaluations[i]
               second == mgr_last.evaluations[j]
           IN  /\ first.kind = "octants" /\ second.kind = "octants"
               /\ first.skipped /\ first.intersects
               /\ second.skipped /\ ~second.intersects
               /\ Predicate_call(mgr_last.predicate, second.aabb)

\* the local positions of the children of a node
LocalPositions == {IVec3(x, y, z) : x, y, z \in 0..(NODE_SUBDIVISION - 1)}

\* the nodes of a subtree: each with its level, the indexes that lead to it,
\* its global_pos, the leaves beneath it, and the global_pos of its parent with
\* the index it has there
RECURSIVE TreeNodes(_, _, _, _, _)
TreeNodes(level, self, path, parent_pos, index) ==
    {[level |-> level, path |-> path, global_pos |-> self.global_pos,
      leaves |-> Node_for_all_chunks(level, self), parent_pos |-> parent_pos, index |-> index]}
    \cup (IF level = 1 THEN {}
          ELSE UNION {TreeNodes(level - 1, self.children[i], Append(path, i), self.global_pos, i) :
                         i \in DOMAIN self.children})

\* the sections of a manager and the nodes allocated in them
AllNodes(self) ==
    UNION {TreeNodes(SectionLevel, self.section_map[region_pos], <<region_pos>>, Nothing, None) :
              region_pos \in DOMAIN self.section_map}

\* C28: tree nodes are allocated lazily. After every step each section and
\* each allocated Level2 and Level1 node has a loaded chunk beneath it and each
\* child sits at parent.global_pos + local_pos * child_side; a step that adds a
\* section or a node is an insert_chunk, and the chunk it inserted lies beneath
\* every node it added.
C28_NodesLazy ==
    [][/\ \A n \in AllNodes(manager') :
              /\ n.leaves # {}
              /\ n.parent_pos # Nothing =>
                     LET local_pos == CHOOSE l \in LocalPositions : get_index_from_pos(l) = n.index
                     IN  n.global_pos = IVec3_add(n.parent_pos,
                                            IVec3_mul(local_pos, SIDE_CHUNK_COUNT(n.level)))
       /\ \A n \in AllNodes(manager') :
              n.path \notin {m.path : m \in AllNodes(manager)} =>
                  /\ mgr_last'.op = "insert_chunk"
                  /\ \E l \in n.leaves : l.id = mgr_last'.id /\ l.chunk = mgr_last'.chunk
      ]_vars

\* an insert that added a Level2 node to a section that was there before
C28_Witness ==
    /\ mgr_last.op = "insert_chunk"
    /\ \E region_pos \in DOMAIN manager.section_map :
           Cardinality(DOMAIN manager.section_map[region_pos].children) = 2

\* C29: a set_block(p, s) with p in range changes what is read at p and
\* nothing else: every other position reads after the call what it read before
\* it, the voxel that shares a byte with p and the voxels carried through a
\* promotion included, and position() is what it was.
C29_SetBlockFrame ==
    [][last'.op = "set_block" =>
          /\ chunk'.position = chunk.position
          /\ \A lc \in 0..(ChunkVolume - 1) :
                 shadow'[lc] = shadow[lc]
                     => Chunk_get_block(chunk', BlockPosOfLinear(lc))
                            = Chunk_get_block(chunk, BlockPosOfLinear(lc))
      ]_vars

\* a set_block that promoted a 4-bit chunk whose other voxels hold 15 states
C29_Witness ==
    /\ last.op = "set_block"
    /\ last.before = "Chunk4bits"
    /\ last.promotions >= 1
    /\ chunk.handle.tag = "Chunk8bits"
    /\ Cardinality(HeldStates) >= Chunk4BitsPaletteLen + 1

\* C30: palette slots are never released. After a non-empty sequence of
\* set_block calls on a fresh chunk, with no other call of promote(), the chunk
\* is in the 4-bit format iff at most 15 distinct non-air states were ever
\* written to it, in the 8-bit format iff 16 to 255 were, and in the Native
\* format iff 256 or more were, whatever its voxels hold now.
C30_FormatByHistory ==
    last.op = "set_block" =>
        /\ chunk.handle.tag = "Chunk4bits" <=> Cardinality(written) <= Chunk4BitsPaletteLen
        /\ chunk.handle.tag = "Chunk8bits" <=>
               (/\ Cardinality(written) >= Chunk4BitsPaletteLen + 1
                /\ Cardinality(written) <= Chunk8BitsPaletteLen)
        /\ chunk.handle.tag = "ChunkNative" <=> Cardinality(written) >= Chunk8BitsPaletteLen + 1

\* the 16th distinct state was written after an overwrite left 14 states in
\* the voxels: the chunk holds 15 states and is in the 8-bit format
C30_Witness ==
    /\ last.op = "set_block"
    /\ chunk.handle.tag = "Chunk8bits"
    /\ Cardinality(written) = Chunk4BitsPaletteLen + 1
    /\ Cardinality(HeldStates) = Chunk4BitsPaletteLen
====
